---- MODULE Spec2Model ----
(***************************************************************************)
(* Decision-rules engine of the FRA Atlas backend (DecisionRulesService,   *)
(* its REST routes and the decision_rules table).                          *)
(*                                                                         *)
(* These specifications share this module:                                 *)
(*   SpecFn - the pure evaluators evaluateCondition and                    *)
(*            evaluateRuleConditions applied to bounded inputs;            *)
(*   Spec   - the decision_rules table behind the REST routes together     *)
(*            with one in-flight evaluateRules call;                       *)
(*   SpecCalls - Spec with a second evaluateRules call running             *)
(*            concurrently with the first;                                 *)
(*   SpecBatch - evaluateRules and getRecommendedActions applied to        *)
(*            bounded inputs;                                              *)
(*   SpecSamples - the pure evaluators applied to the rules of             *)
(*            createSampleRules and to claim records;                      *)
(*   SpecMigrate - MigrationRunner.runMigrations, one pool.query at a      *)
(*            time, over the connections of the pool.                      *)
(***************************************************************************)
EXTENDS Integers, Sequences, FiniteSets, TLC

VARIABLES
    \* ---- SpecFn: one application of the pure evaluators
    conditions,        \* the `conditions` argument of evaluateRuleConditions
    data,              \* the `data` argument (the evaluation record)
    fnpc,              \* "start" | "condition" | "tree" | "changed"
    condition,         \* the child last handed to evaluateCondition
    conditionResult,   \* what evaluateCondition returned for it
    evaluation,        \* what evaluateRuleConditions returned
    previous,          \* the evaluation before the last child replacement
    change,            \* which child was replaced and how its outcome moved
    \* ---- Spec: the table, the routes and one evaluateRules call
    decision_rules,    \* rows of the decision_rules table
    nextId,            \* next value of the SERIAL sequence of decision_rules.id
    clock,             \* now() of the database, one tick per write statement
    response,          \* what the last route call answered
    epc,               \* evaluateRules call: "idle" | "fetched" | "done"
    edata,             \* its `data` argument
    rules,             \* the rows its getActiveRules() resolved with
    fetched,           \* the table as it was when that query ran
    results,           \* what the call resolved or rejected with
    \* ---- SpecCalls: a second, concurrent evaluateRules call
    other,             \* its position, `data`, fetched rows and outcome
    \* ---- SpecBatch: one batch through the engine
    bpc,               \* "start" | "given" | "evaluated" | "repeated" | "recommended"
    activeRules,       \* the rows getActiveRules() resolved with
    batchData,         \* the `data` argument of evaluateRules
    evaluationResults, \* what evaluateRules resolved with
    repeated,          \* what a second call with the same arguments resolved with
    recommendations,   \* what getRecommendedActions returned
    \* ---- SpecMigrate: the migration runner and the pool's connections
    mig                \* position of the runner, transactions, committed state

fnVars == <<conditions, data, fnpc, condition, conditionResult, evaluation,
            previous, change>>
dbVars == <<decision_rules, nextId, clock, response, epc, edata, rules,
            fetched, results>>
callVars == <<other>>
batchVars == <<bpc, activeRules, batchData, evaluationResults, repeated, recommendations>>
migVars == <<mig>>
vars == <<fnVars, dbVars, callVars, batchVars, migVars>>

-----------------------------------------------------------------------------
(* Bounds of the model *)

\* most children a generated and/or/all/any group carries
MaxChildren == 2
\* write statements (INSERT, UPDATE, DELETE) the routes may issue
MaxClock == 2
\* write statements issued while two evaluateRules calls are followed
MaxInterleaved == 1
\* most rules, or results, one batch holds
MaxResults == 2
\* most milliseconds Date.now() advances while one rule is evaluated
MaxElapsed == 1
\* connections the pool hands out (the pool is configured with max: 20)
MaxConnections == 2
\* runs of `npm run migrate:run`
MaxRuns == 2

-----------------------------------------------------------------------------
(* JavaScript / JSON values.  Every value is a record tagged by t; a       *)
(* string's content s is its sequence of characters.                       *)

Undefined == [t |-> "undefined"]
Null == [t |-> "null"]
Num(n) == [t |-> "number", n |-> n]
Str(s) == [t |-> "string", s |-> s]
Bool(b) == [t |-> "boolean", b |-> b]
Arr(items) == [t |-> "array", items |-> items]

\* A property that holds a name (field, operator, rule_name): either
\* missing, or a string kept whole because it is only compared and printed.
NoName == [def |-> FALSE, s |-> "undefined"]
Name(s) == [def |-> TRUE, s |-> s]

\* x === y
StrictEquals(x, y) ==
    /\ x.t = y.t
    /\ CASE x.t = "number" -> x.n = y.n
         [] x.t = "string" -> x.s = y.s
         [] x.t = "boolean" -> x.b = y.b
         [] x.t = "array" -> FALSE      \* two distinct array objects
         [] OTHER -> TRUE               \* null === null, undefined === undefined

Digits == <<"0", "1", "2", "3", "4", "5", "6", "7", "8", "9">>

DigitValue(c) == CHOOSE d \in 0..9 : Digits[d + 1] = c

IsDigit(c) == \E d \in 0..9 : Digits[d + 1] = c

RECURSIVE ParseDigits(_, _)
ParseDigits(s, acc) ==
    IF s = <<>> THEN acc
    ELSE ParseDigits(Tail(s), 10 * acc + DigitValue(Head(s)))

RECURSIVE NumberToChars(_)
NumberToChars(n) ==
    IF n < 10 THEN <<Digits[n + 1]>>
    ELSE NumberToChars(n \div 10) \o <<Digits[(n % 10) + 1]>>

RECURSIVE JoinChars(_, _)
\* String(v): the characters of v converted to a string
ToChars(v) ==
    CASE v.t = "string" -> v.s
      [] v.t = "number" -> NumberToChars(v.n)
      [] v.t = "boolean" -> IF v.b THEN <<"t", "r", "u", "e">>
                            ELSE <<"f", "a", "l", "s", "e">>
      [] v.t = "null" -> <<"n", "u", "l", "l">>
      [] v.t = "undefined" -> <<"u", "n", "d", "e", "f", "i", "n", "e", "d">>
      [] v.t = "array" -> JoinChars(v.items, 1)

\* Array.prototype.join(","): null and undefined elements print as empty
JoinChars(items, i) ==
    IF i > Len(items) THEN <<>>
    ELSE LET e == items[i]
             own == IF e.t \in {"null", "undefined"} THEN <<>>
                    ELSE CASE e.t = "string" -> e.s
                           [] e.t = "number" -> NumberToChars(e.n)
                           [] e.t = "boolean" -> IF e.b THEN <<"t", "r", "u", "e">>
                                                 ELSE <<"f", "a", "l", "s", "e">>
                           [] OTHER -> <<>>
         IN  IF i < Len(items) THEN own \o <<",">> \o JoinChars(items, i + 1)
             ELSE own

\* Number(v): [nan, n]; a string is a number when it is empty or all digits
ToNumber(v) ==
    CASE v.t = "number" -> [nan |-> FALSE, n |-> v.n]
      [] v.t = "boolean" -> [nan |-> FALSE, n |-> IF v.b THEN 1 ELSE 0]
      [] v.t = "null" -> [nan |-> FALSE, n |-> 0]
      [] v.t = "undefined" -> [nan |-> TRUE, n |-> 0]
      [] v.t = "string" ->
            IF \A i \in 1..Len(v.s) : IsDigit(v.s[i])
            THEN [nan |-> FALSE, n |-> ParseDigits(v.s, 0)]
            ELSE [nan |-> TRUE, n |-> 0]
      [] v.t = "array" ->
            LET cs == JoinChars(v.items, 1)
            IN  IF \A i \in 1..Len(cs) : IsDigit(cs[i])
                THEN [nan |-> FALSE, n |-> ParseDigits(cs, 0)]
                ELSE [nan |-> TRUE, n |-> 0]

\* Number(x) > Number(y): false as soon as either side is NaN
NumberGreater(x, y) ==
    LET a == ToNumber(x)
        b == ToNumber(y)
    IN  ~a.nan /\ ~b.nan /\ a.n > b.n

LowerOf(c) ==
    CASE c = "A" -> "a" [] c = "B" -> "b" [] c = "C" -> "c" [] c = "G" -> "g"
      [] c = "E" -> "e" [] c = "I" -> "i" [] c = "L" -> "l" [] c = "N" -> "n"
      [] c = "R" -> "r" [] c = "T" -> "t" [] c = "U" -> "u"
      [] OTHER -> c

\* String.prototype.toLowerCase
ToLowerCase(s) == [i \in 1..Len(s) |-> LowerOf(s[i])]

\* String.prototype.includes
Includes(s, sub) ==
    \E k \in 0..(Len(s) - Len(sub)) :
        \A j \in 1..Len(sub) : s[k + j] = sub[j]

\* Array.prototype.includes (SameValueZero; no NaN among the values here)
ArrayIncludes(items, x) == \E i \in 1..Len(items) : StrictEquals(items[i], x)

RECURSIVE CharsToString(_)
\* the characters of a string as one printable string
CharsToString(s) == IF s = <<>> THEN "" ELSE Head(s) \o CharsToString(Tail(s))

-----------------------------------------------------------------------------
(* Condition objects.  A condition is null or an object whose field and    *)
(* operator are names and whose value is a JSON value; a tree is null or   *)
(* an object that may also carry the array-valued keys and, or, all, any.  *)
(* Keys the evaluator never reads (such as the seed's "op") are left out.  *)

Cond(field, operator, value) ==
    [isNull |-> FALSE, field |-> field, operator |-> operator, value |-> value]

NullCondition ==
    [isNull |-> TRUE, field |-> NoName, operator |-> NoName, value |-> Undefined]

NoGroup == [def |-> FALSE, items |-> <<>>]
Group(items) == [def |-> TRUE, items |-> items]

Tree(field, operator, value, and, or, all, any) ==
    [isNull |-> FALSE, field |-> field, operator |-> operator, value |-> value,
     and |-> and, or |-> or, all |-> all, any |-> any]

NullTree ==
    [isNull |-> TRUE, field |-> NoName, operator |-> NoName, value |-> Undefined,
     and |-> NoGroup, or |-> NoGroup, all |-> NoGroup, any |-> NoGroup]

AtomicTree(c) == Tree(c.field, c.operator, c.value, NoGroup, NoGroup, NoGroup, NoGroup)
AndTree(items) == Tree(NoName, NoName, Undefined, Group(items), NoGroup, NoGroup, NoGroup)
OrTree(items) == Tree(NoName, NoName, Undefined, NoGroup, Group(items), NoGroup, NoGroup)
AllTree(items) == Tree(NoName, NoName, Undefined, NoGroup, NoGroup, Group(items), NoGroup)
AnyTree(items) == Tree(NoName, NoName, Undefined, NoGroup, NoGroup, NoGroup, Group(items))
EmptyObject == Tree(NoName, NoName, Undefined, NoGroup, NoGroup, NoGroup, NoGroup)

\* the condition a tree's own field/operator/value keys spell
OwnCondition(t) == Cond(t.field, t.operator, t.value)

\* data[field]
FieldValue(record, field) ==
    IF field.s \in DOMAIN record THEN record[field.s] ELSE Undefined

\* `${condition.field} ${condition.operator} ${condition.value}`
Describe(c) ==
    c.field.s \o " " \o c.operator.s \o " " \o CharsToString(ToChars(c.value))

InvalidConditionFormat == "Invalid condition format"

Threw == [threw |-> TRUE, result |-> FALSE]
Returned(b) == [threw |-> FALSE, result |-> b]

\* evaluateCondition without the absent-field guard
evaluateCondition_NoGuard(c, record) ==
    IF c.isNull THEN Threw
    ELSE
      LET fieldValue == FieldValue(record, c.field)
          operator == c.operator
          value == c.value
      IN  Returned(
            CASE operator.def /\ operator.s = "equals" -> StrictEquals(fieldValue, value)
              [] operator.def /\ operator.s = "not_equals" -> ~StrictEquals(fieldValue, value)
              [] operator.def /\ operator.s = "greater_than" -> NumberGreater(fieldValue, value)
              [] operator.def /\ operator.s = "less_than" -> NumberGreater(value, fieldValue)
              [] operator.def /\ operator.s = "contains" ->
                    Includes(ToLowerCase(ToChars(fieldValue)), ToLowerCase(ToChars(value)))
              [] operator.def /\ operator.s = "not_contains" ->
                    ~Includes(ToLowerCase(ToChars(fieldValue)), ToLowerCase(ToChars(value)))
              [] operator.def /\ operator.s = "in" ->
                    value.t = "array" /\ ArrayIncludes(value.items, fieldValue)
              [] operator.def /\ operator.s = "not_in" ->
                    value.t = "array" /\ ~ArrayIncludes(value.items, fieldValue)
              [] OTHER -> FALSE)

\* evaluateCondition whose switch falls through to true
evaluateCondition_UnknownPasses(c, record) ==
    IF c.isNull THEN Threw
    ELSE IF FieldValue(record, c.field).t \in {"undefined", "null"}
    THEN Returned(FALSE)
    ELSE IF c.operator.def
            /\ c.operator.s \in {"equals", "not_equals", "greater_than", "less_than",
                                 "contains", "not_contains", "in", "not_in"}
    THEN evaluateCondition_NoGuard(c, record)
    ELSE Returned(TRUE)

\* evaluateCondition(condition, data): destructuring a null condition throws
evaluateCondition(c, record) ==
    IF c.isNull THEN Threw
    ELSE
      LET fieldValue == FieldValue(record, c.field)
          operator == c.operator
          value == c.value
      IN  IF fieldValue.t = "undefined" \/ fieldValue.t = "null"
          THEN Returned(FALSE)
          ELSE Returned(
            CASE operator.def /\ operator.s = "equals" -> StrictEquals(fieldValue, value)
              [] operator.def /\ operator.s = "not_equals" -> ~StrictEquals(fieldValue, value)
              [] operator.def /\ operator.s = "greater_than" -> NumberGreater(fieldValue, value)
              [] operator.def /\ operator.s = "less_than" -> NumberGreater(value, fieldValue)
              [] operator.def /\ operator.s = "contains" ->
                    Includes(ToLowerCase(ToChars(fieldValue)), ToLowerCase(ToChars(value)))
              [] operator.def /\ operator.s = "not_contains" ->
                    ~Includes(ToLowerCase(ToChars(fieldValue)), ToLowerCase(ToChars(value)))
              [] operator.def /\ operator.s = "in" ->
                    value.t = "array" /\ ArrayIncludes(value.items, fieldValue)
              [] operator.def /\ operator.s = "not_in" ->
                    value.t = "array" /\ ~ArrayIncludes(value.items, fieldValue)
              [] OTHER -> FALSE)

\* the result of evaluateRuleConditions, or the fact that it threw
EvaluationThrew ==
    [threw |-> TRUE, matched |-> FALSE, conditions_met |-> <<>>,
     conditions_failed |-> <<>>]

StartEvaluation(matched) ==
    [threw |-> FALSE, matched |-> matched, conditions_met |-> <<>>,
     conditions_failed |-> <<>>]

\* AndStep with `matched = conditionResult` in place of the if/else
AndStep_LastWins(acc, c, record) ==
    LET conditionResult_ == evaluateCondition(c, record)
    IN  IF conditionResult_.threw THEN EvaluationThrew
        ELSE IF conditionResult_.result
        THEN [acc EXCEPT !.conditions_met = Append(@, Describe(c)),
                         !.matched = TRUE]
        ELSE [acc EXCEPT !.conditions_failed = Append(@, Describe(c)),
                         !.matched = FALSE]

\* OrStep with `matched = conditionResult` in place of the if/else
OrStep_LastWins(acc, c, record) ==
    LET conditionResult_ == evaluateCondition(c, record)
    IN  IF conditionResult_.threw THEN EvaluationThrew
        ELSE IF conditionResult_.result
        THEN [acc EXCEPT !.conditions_met = Append(@, Describe(c)),
                         !.matched = TRUE]
        ELSE [acc EXCEPT !.conditions_failed = Append(@, Describe(c)),
                         !.matched = FALSE]

\* one pass of the `for (const condition of conditions.and)` body
AndStep(acc, c, record) ==
    LET conditionResult_ == evaluateCondition(c, record)
    IN  IF conditionResult_.threw THEN EvaluationThrew
        ELSE IF conditionResult_.result
        THEN [acc EXCEPT !.conditions_met = Append(@, Describe(c))]
        ELSE [acc EXCEPT !.conditions_failed = Append(@, Describe(c)),
                         !.matched = FALSE]

\* one pass of the `for (const condition of conditions.or)` body
OrStep(acc, c, record) ==
    LET conditionResult_ == evaluateCondition(c, record)
    IN  IF conditionResult_.threw THEN EvaluationThrew
        ELSE IF conditionResult_.result
        THEN [acc EXCEPT !.conditions_met = Append(@, Describe(c)),
                         !.matched = TRUE]
        ELSE [acc EXCEPT !.conditions_failed = Append(@, Describe(c))]

RECURSIVE AndLoop_Backwards(_, _, _, _)
\* the AND loop walking conditions.and from its last child to its first
AndLoop_Backwards(items, i, acc, record) ==
    IF i > Len(items) \/ acc.threw THEN acc
    ELSE AndLoop_Backwards(items, i + 1,
                           AndStep(acc, items[Len(items) + 1 - i], record), record)

RECURSIVE AndLoop(_, _, _, _)
AndLoop(items, i, acc, record) ==
    IF i > Len(items) \/ acc.threw THEN acc
    ELSE AndLoop(items, i + 1, AndStep(acc, items[i], record), record)

RECURSIVE OrLoop(_, _, _, _)
OrLoop(items, i, acc, record) ==
    IF i > Len(items) \/ acc.threw THEN acc
    ELSE OrLoop(items, i + 1, OrStep(acc, items[i], record), record)

\* a JavaScript name read in a boolean position: present and not ""
Truthy(name) == name.def /\ name.s # ""

\* SingleCondition reporting a malformed tree without a trace entry
SingleCondition_NoTrace(t, record) ==
    IF Truthy(t.field) /\ Truthy(t.operator) /\ t.value.t # "undefined"
    THEN AndStep(StartEvaluation(TRUE), OwnCondition(t), record)
    ELSE StartEvaluation(FALSE)

\* the `else` branch: a single condition or "Invalid condition format"
SingleCondition(t, record) ==
    IF Truthy(t.field) /\ Truthy(t.operator) /\ t.value.t # "undefined"
    THEN AndStep(StartEvaluation(TRUE), OwnCondition(t), record)
    ELSE [StartEvaluation(FALSE) EXCEPT
            !.conditions_failed = <<InvalidConditionFormat>>]

\* evaluateRuleConditions stopping an AND group at its first failed child
evaluateRuleConditions_ShortCircuit(t, record) ==
    IF t.isNull THEN EvaluationThrew
    ELSE IF t.and.def
    THEN LET firstFail == {i \in 1..Len(t.and.items) :
                             LET r == evaluateCondition(t.and.items[i], record)
                             IN  ~r.threw /\ ~r.result}
             upto == IF firstFail = {} THEN Len(t.and.items)
                     ELSE CHOOSE i \in firstFail : \A j \in firstFail : i <= j
         IN  AndLoop(SubSeq(t.and.items, 1, upto), 1, StartEvaluation(TRUE), record)
    ELSE IF t.or.def
    THEN OrLoop(t.or.items, 1, StartEvaluation(FALSE), record)
    ELSE SingleCondition(t, record)

\* evaluateRuleConditions without the `matched = false` that opens the OR branch
evaluateRuleConditions_OrStartsMatched(t, record) ==
    IF t.isNull THEN EvaluationThrew
    ELSE IF t.and.def
    THEN AndLoop(t.and.items, 1, StartEvaluation(TRUE), record)
    ELSE IF t.or.def
    THEN OrLoop(t.or.items, 1, StartEvaluation(TRUE), record)
    ELSE SingleCondition(t, record)

\* evaluateRuleConditions(conditions, data): reading a key of null throws
evaluateRuleConditions(t, record) ==
    IF t.isNull THEN EvaluationThrew
    ELSE IF t.and.def
    THEN AndLoop(t.and.items, 1, StartEvaluation(TRUE), record)
    ELSE IF t.or.def
    THEN OrLoop(t.or.items, 1, StartEvaluation(FALSE), record)
    ELSE SingleCondition(t, record)

-----------------------------------------------------------------------------
(* Inputs of SpecFn *)

OperatorNames ==
    {"equals", "not_equals", "greater_than", "less_than", "contains",
     "not_contains", "in", "not_in",
     "lte", "greater_than_or_equal", "less_than_or_equal"}

KnownOperators ==
    {"equals", "not_equals", "greater_than", "less_than", "contains",
     "not_contains", "in", "not_in"}

FieldNames == {"a", "b"}

\* values a stored condition compares with
ConditionValues ==
    {Num(1), Num(5), Str(<<"5">>), Str(<<"a">>), Bool(FALSE), Null,
     Arr(<<Num(1), Str(<<"5">>)>>)}

\* values a record holds under "a" (Undefined: the key is absent)
RecordValues ==
    {Undefined, Null, Num(1), Num(5), Str(<<"5">>), Str(<<"A", "b">>), Bool(FALSE)}

AtomicConditions ==
    {Cond(Name(f), Name(o), v) : f \in FieldNames, o \in OperatorNames,
                                 v \in ConditionValues}

AtomicRecords == {[a |-> x, b |-> y] : x \in RecordValues, y \in {Undefined, Num(1)}}

\* children of the generated groups: three that can pass or fail, one whose
\* operator key is missing (as in the seeded rows), and a null child
GroupChildren ==
    {Cond(Name("a"), Name("equals"), Num(1)),
     Cond(Name("a"), Name("greater_than"), Num(1)),
     Cond(Name("b"), Name("not_equals"), Num(5)),
     Cond(Name("a"), NoName, Num(1)),
     NullCondition}

ChildLists == UNION {[1..n -> GroupChildren] : n \in 0..MaxChildren}

GroupTrees ==
    {AndTree(l) : l \in ChildLists} \cup {OrTree(l) : l \in ChildLists}
    \cup {AllTree(l) : l \in ChildLists} \cup {AnyTree(l) : l \in ChildLists}

\* objects that are neither a condition nor a group, and objects that are both
OddTrees ==
    {NullTree, EmptyObject,
     Tree(Name("a"), NoName, Undefined, NoGroup, NoGroup, NoGroup, NoGroup),
     Tree(Name("a"), Name("equals"), Undefined, NoGroup, NoGroup, NoGroup, NoGroup),
     Tree(Name(""), Name("equals"), Num(1), NoGroup, NoGroup, NoGroup, NoGroup),
     Tree(NoName, Name("equals"), Num(1), NoGroup, NoGroup, NoGroup, NoGroup)}
    \cup {Tree(Name("a"), Name("equals"), Num(1), Group(l), NoGroup, NoGroup, NoGroup) :
            l \in {<<>>, <<Cond(Name("a"), Name("greater_than"), Num(1))>>}}
    \cup {Tree(Name("a"), Name("equals"), Num(1), NoGroup, Group(l), NoGroup, NoGroup) :
            l \in {<<>>, <<Cond(Name("a"), Name("greater_than"), Num(1))>>}}
    \cup {Tree(Name("a"), Name("equals"), Num(1), NoGroup, NoGroup, Group(l), NoGroup) :
            l \in {<<Cond(Name("a"), Name("greater_than"), Num(1))>>}}
    \cup {Tree(Name("a"), Name("equals"), Num(1), NoGroup, NoGroup, NoGroup, Group(l)) :
            l \in {<<Cond(Name("a"), Name("greater_than"), Num(1))>>}}

GroupRecords == {[a |-> x, b |-> y] : x \in {Undefined, Num(1), Num(5)},
                                      y \in {Undefined, Num(1)}}

FnInputs ==
    ({AtomicTree(c) : c \in AtomicConditions} \X AtomicRecords)
    \cup ((GroupTrees \cup OddTrees) \X GroupRecords)

\* the group key a tree carries, in the order and / or / all / any
GroupKey(t) ==
    IF t.isNull THEN "none"
    ELSE IF t.and.def THEN "and"
    ELSE IF t.or.def THEN "or"
    ELSE IF t.all.def THEN "all"
    ELSE IF t.any.def THEN "any"
    ELSE "none"

GroupItems(t) ==
    CASE GroupKey(t) = "and" -> t.and.items
      [] GroupKey(t) = "or" -> t.or.items
      [] GroupKey(t) = "all" -> t.all.items
      [] GroupKey(t) = "any" -> t.any.items
      [] OTHER -> <<>>

WithGroupItems(t, items) ==
    CASE GroupKey(t) = "and" -> [t EXCEPT !.and.items = items]
      [] GroupKey(t) = "or" -> [t EXCEPT !.or.items = items]
      [] GroupKey(t) = "all" -> [t EXCEPT !.all.items = items]
      [] GroupKey(t) = "any" -> [t EXCEPT !.any.items = items]
      [] OTHER -> t

\* the atomic conditions a tree consists of
ConditionsOf(t) ==
    IF t.isNull THEN {}
    ELSE IF GroupKey(t) = "none" THEN {OwnCondition(t)}
    ELSE {GroupItems(t)[i] : i \in 1..Len(GroupItems(t))}

NoRecommendations == [actions |-> <<>>, high_priority_actions |-> <<>>, warnings |-> <<>>]

BatchIdle ==
    /\ bpc = "off"
    /\ activeRules = <<>>
    /\ batchData = [a |-> Undefined]
    /\ evaluationResults = <<>>
    /\ repeated = <<>>
    /\ recommendations = NoRecommendations

NoChange == [index |-> 0, before |-> Threw, after |-> Threw]

FnIdle ==
    /\ condition = NullCondition
    /\ conditionResult = Threw
    /\ evaluation = EvaluationThrew
    /\ previous = EvaluationThrew
    /\ change = NoChange

-----------------------------------------------------------------------------
(* The decision_rules table and DecisionRulesService's store operations *)

Row(id, rule_name, description, conds, action, is_active, priority, at) ==
    [id |-> id, rule_name |-> rule_name, description |-> description,
     conditions |-> conds, action |-> action, is_active |-> is_active,
     priority |-> priority, created_at |-> at, updated_at |-> at]

\* stands for "no row" (null) in a response; ids of real rows start at 1
NoRow == Row(0, "", NoName, NullTree, <<>>, FALSE, 0, 0)

\* the two rows of migration 002, inserted by one statement (equal created_at);
\* their children carry "op" where the evaluator reads "operator"
SeedRows ==
    {Row(1, "Agriculture_ST_under_4ha", Name("ST agriculture <= 4 ha: approve IFR"),
         AllTree(<<Cond(Name("land_use"), NoName,
                        Str(<<"a","g","r","i","c","u","l","t","u","r","e">>)),
                   Cond(Name("claimant_category"), NoName, Str(<<"S","T">>)),
                   Cond(Name("area_ha"), NoName, Num(4))>>),
         <<"a","p","p","r","o","v","e","_","i","f","r">>, TRUE, 10, 0),
     Row(2, "CFR_overlap_protected_area", Name("CFR overlaps a PA: escalate"),
         AnyTree(<<Cond(Name("overlap_PA"), NoName, Bool(TRUE))>>),
         <<"e","s","c","a","l","a","t","e","_","t","o","_",
           "c","o","m","m","i","t","t","e","e">>, TRUE, 20, 0)}

Ids(table) == {r.id : r \in table}

RowOf(table, id) == CHOOSE r \in table : r.id = id

\* getRuleById(id): the row, or null
getRuleById(table, id) == IF id \in Ids(table) THEN RowOf(table, id) ELSE NoRow

\* ORDER BY priority ASC, created_at DESC: x may come before y
OrderedBefore(x, y) ==
    \/ x.priority < y.priority
    \/ x.priority = y.priority /\ x.created_at >= y.created_at

\* every sequence a SELECT ... ORDER BY priority ASC, created_at DESC may
\* return for these rows (rows equal in both keys come in either order)
OrderedSelections(rows) ==
    {q \in [1..Cardinality(rows) -> rows] :
        /\ \A i, j \in 1..Cardinality(rows) : i # j => q[i] # q[j]
        /\ \A i, j \in 1..Cardinality(rows) : i < j => OrderedBefore(q[i], q[j])}

getAllRules(table) == OrderedSelections(table)

\* getActiveRules with the WHERE clause dropped
getActiveRules_NoFilter(table) == OrderedSelections(table)

\* getActiveRules(): WHERE is_active = true
getActiveRules(table) == OrderedSelections({r \in table : r.is_active = TRUE})

\* JSON.stringify followed by the JSONB column's parse: an undefined array
\* element is written as null; a key whose value is undefined is dropped,
\* which reads back as undefined
JsonValue(v) ==
    IF v.t = "array"
    THEN Arr([i \in 1..Len(v.items) |->
                IF v.items[i].t = "undefined" THEN Null ELSE v.items[i]])
    ELSE v

JsonCondition(c) == IF c.isNull THEN c ELSE [c EXCEPT !.value = JsonValue(@)]

JsonGroup(g) == [g EXCEPT !.items = [i \in 1..Len(g.items) |-> JsonCondition(g.items[i])]]

JsonConditions(t) ==
    IF t.isNull THEN t
    ELSE [t EXCEPT !.value = JsonValue(@), !.and = JsonGroup(@), !.or = JsonGroup(@),
                   !.all = JsonGroup(@), !.any = JsonGroup(@)]

\* createRule(rule): the INSERT ... RETURNING row; the store assigns id and
\* both timestamps
createRule(rule, id, now) ==
    Row(id, rule.rule_name, rule.description, JsonConditions(rule.conditions),
        rule.action, rule.is_active, rule.priority, now)

\* the keys of a request body; def = FALSE is "key absent" (undefined)
Absent(v) == [def |-> FALSE, v |-> v]
Given(v) == [def |-> TRUE, v |-> v]

Body(id, rule_name, description, conds, action, is_active, priority) ==
    [id |-> id, rule_name |-> rule_name, description |-> description,
     conditions |-> conds, action |-> action, is_active |-> is_active,
     priority |-> priority]

\* the SET list updateRule builds: one entry per key that is !== undefined
SetFields(rule) ==
    {k \in {"rule_name", "description", "conditions", "action", "is_active", "priority"} :
        CASE k = "rule_name" -> rule.rule_name.def
          [] k = "description" -> rule.description.def
          [] k = "conditions" -> rule.conditions.def
          [] k = "action" -> rule.action.def
          [] k = "is_active" -> rule.is_active.def
          [] k = "priority" -> rule.priority.def}

\* UpdatedRow writing the column default of is_active when the body does
\* not supply it
UpdatedRow_DefaultsActive(row, rule, now) ==
    [id |-> row.id,
     rule_name |-> IF rule.rule_name.def THEN rule.rule_name.s ELSE row.rule_name,
     description |-> IF rule.description.def THEN rule.description ELSE row.description,
     conditions |-> IF rule.conditions.def THEN JsonConditions(rule.conditions.v)
                    ELSE row.conditions,
     action |-> IF rule.action.def THEN rule.action.v ELSE row.action,
     is_active |-> IF rule.is_active.def THEN rule.is_active.v ELSE TRUE,
     priority |-> IF rule.priority.def THEN rule.priority.v ELSE row.priority,
     created_at |-> row.created_at,
     updated_at |-> now]

\* UpdatedRow also writing the id column from an id key of the body
UpdatedRow_TakesId(row, rule, now) ==
    [id |-> IF rule.id.def THEN rule.id.v ELSE row.id,
     rule_name |-> IF rule.rule_name.def THEN rule.rule_name.s ELSE row.rule_name,
     description |-> IF rule.description.def THEN rule.description ELSE row.description,
     conditions |-> IF rule.conditions.def THEN JsonConditions(rule.conditions.v)
                    ELSE row.conditions,
     action |-> IF rule.action.def THEN rule.action.v ELSE row.action,
     is_active |-> IF rule.is_active.def THEN rule.is_active.v ELSE row.is_active,
     priority |-> IF rule.priority.def THEN rule.priority.v ELSE row.priority,
     created_at |-> row.created_at,
     updated_at |-> now]

\* the row after UPDATE ... SET <fields>; the BEFORE UPDATE trigger stamps
\* updated_at
UpdatedRow(row, rule, now) ==
    [id |-> row.id,
     rule_name |-> IF rule.rule_name.def THEN rule.rule_name.s ELSE row.rule_name,
     description |-> IF rule.description.def THEN rule.description ELSE row.description,
     conditions |-> IF rule.conditions.def THEN JsonConditions(rule.conditions.v)
                    ELSE row.conditions,
     action |-> IF rule.action.def THEN rule.action.v ELSE row.action,
     is_active |-> IF rule.is_active.def THEN rule.is_active.v ELSE row.is_active,
     priority |-> IF rule.priority.def THEN rule.priority.v ELSE row.priority,
     created_at |-> row.created_at,
     updated_at |-> now]

\* updateRule writing every column, the missing keys as their defaults
updateRule_Overwrites(table, id, rule, now) ==
    IF SetFields(rule) = {}
    THEN [table |-> table, row |-> getRuleById(table, id), wrote |-> FALSE]
    ELSE IF id \in Ids(table)
    THEN LET new == [UpdatedRow(RowOf(table, id), rule, now) EXCEPT
                        !.is_active = IF rule.is_active.def THEN rule.is_active.v
                                      ELSE TRUE,
                        !.priority = IF rule.priority.def THEN rule.priority.v
                                     ELSE 100]
         IN  [table |-> (table \ {RowOf(table, id)}) \cup {new}, row |-> new,
              wrote |-> TRUE]
    ELSE [table |-> table, row |-> NoRow, wrote |-> FALSE]

\* updateRule(id, rule): [table, returned row or NoRow, wrote]
updateRule(table, id, rule, now) ==
    IF SetFields(rule) = {}
    THEN [table |-> table, row |-> getRuleById(table, id), wrote |-> FALSE]
    ELSE IF id \in Ids(table)
    THEN LET new == UpdatedRow(RowOf(table, id), rule, now)
         IN  [table |-> (table \ {RowOf(table, id)}) \cup {new}, row |-> new,
              wrote |-> TRUE]
    ELSE [table |-> table, row |-> NoRow, wrote |-> FALSE]

\* deleteRule answering true whether or not a row was removed
deleteRule_AlwaysTrue(table, id) ==
    [table |-> {r \in table : r.id # id}, deleted |-> TRUE]

\* deleteRule(id): [table, rowCount > 0]
deleteRule(table, id) ==
    [table |-> {r \in table : r.id # id}, deleted |-> id \in Ids(table)]

-----------------------------------------------------------------------------
(* evaluateRules *)

\* Result marking the action of a rule of priority below 50 as urgent
Result_UrgentByPriority(rule, ev) ==
    [rule_id |-> rule.id, rule_name |-> rule.rule_name, matched |-> ev.matched,
     action |-> IF rule.priority < 50
                THEN <<"U", "R", "G", "E", "N", "T", " ">> \o rule.action
                ELSE rule.action,
     conditions_met |-> ev.conditions_met,
     conditions_failed |-> ev.conditions_failed]

\* the object pushed onto `results`
Result(rule, ev) ==
    [rule_id |-> rule.id, rule_name |-> rule.rule_name, matched |-> ev.matched,
     action |-> rule.action, conditions_met |-> ev.conditions_met,
     conditions_failed |-> ev.conditions_failed]

RECURSIVE InsertById(_, _)
InsertById(sorted, x) ==
    IF sorted = <<>> THEN <<x>>
    ELSE IF x.rule_id - Head(sorted).rule_id < 0 THEN <<x>> \o sorted
    ELSE <<Head(sorted)>> \o InsertById(Tail(sorted), x)

RECURSIVE SortLoop(_, _, _)
SortLoop(list, i, sorted) ==
    IF i > Len(list) THEN sorted
    ELSE SortLoop(list, i + 1, InsertById(sorted, list[i]))

\* results.sort with the comparator left out of the return
SortByRuleId_Unsorted(list) == list

\* results.sort((a, b) => a.rule_id - b.rule_id), a stable sort
SortByRuleId(list) == SortLoop(list, 1, <<>>)

\* a call that rejected: with the TypeError of reading a key of null, or with
\* the error pool.query rejected with
RulesThrew == [threw |-> TRUE, list |-> <<>>, error |-> "TypeError"]
StoreFailed == [threw |-> TRUE, list |-> <<>>, error |-> "store"]

RECURSIVE RulesLoop(_, _, _, _)
\* the `for (const rule of rules)` loop: an exception leaves the function
RulesLoop(rs, i, acc, record) ==
    IF i > Len(rs) THEN [threw |-> FALSE, list |-> acc, error |-> "none"]
    ELSE LET ev == evaluateRuleConditions(rs[i].conditions, record)
         IN  IF ev.threw THEN RulesThrew
             ELSE RulesLoop(rs, i + 1, Append(acc, Result(rs[i], ev)), record)

\* evaluateRules(data) once getActiveRules() has resolved with rs;
\* evaluation_time (a wall-clock difference) is not part of the model
evaluateRules(rs, record) ==
    LET looped == RulesLoop(rs, 1, <<>>, record)
    IN  IF looped.threw THEN RulesThrew
        ELSE [threw |-> FALSE, list |-> SortByRuleId(looped.list), error |-> "none"]

-----------------------------------------------------------------------------
(* getRecommendedActions *)

\* result.action.toLowerCase().includes('urgent') ||
\* result.action.toLowerCase().includes('critical')
IsHighPriority(action) ==
    \/ Includes(ToLowerCase(action), <<"u", "r", "g", "e", "n", "t">>)
    \/ Includes(ToLowerCase(action), <<"c", "r", "i", "t", "i", "c", "a", "l">>)

RECURSIVE JoinFailed(_, _)
\* result.conditions_failed.join(', ') from entry i on
JoinFailed(list, i) ==
    IF i > Len(list) THEN ""
    ELSE IF i = Len(list) THEN list[i]
    ELSE list[i] \o ", " \o JoinFailed(list, i + 1)

\* `Rule "${result.rule_name}" conditions not met: ${...join(', ')}`
Warning(result) ==
    "Rule \"" \o result.rule_name \o "\" conditions not met: "
        \o JoinFailed(result.conditions_failed, 1)

\* RecommendStep looking for the keywords without toLowerCase()
RecommendStep_CaseSensitive(acc, result) ==
    IF result.matched
    THEN IF \/ Includes(result.action, <<"u", "r", "g", "e", "n", "t">>)
            \/ Includes(result.action, <<"c", "r", "i", "t", "i", "c", "a", "l">>)
         THEN [acc EXCEPT !.high_priority_actions = Append(@, result.action)]
         ELSE [acc EXCEPT !.actions = Append(@, result.action)]
    ELSE IF Len(result.conditions_failed) > 0
    THEN [acc EXCEPT !.warnings = Append(@, Warning(result))]
    ELSE acc

\* RecommendStep warning about every unmatched result, traced or not
RecommendStep_WarnsEveryUnmatched(acc, result) ==
    IF result.matched
    THEN IF IsHighPriority(result.action)
         THEN [acc EXCEPT !.high_priority_actions = Append(@, result.action)]
         ELSE [acc EXCEPT !.actions = Append(@, result.action)]
    ELSE [acc EXCEPT !.warnings = Append(@, Warning(result))]

\* one pass of the `for (const result of evaluationResults)` body
RecommendStep(acc, result) ==
    IF result.matched
    THEN IF IsHighPriority(result.action)
         THEN [acc EXCEPT !.high_priority_actions = Append(@, result.action)]
         ELSE [acc EXCEPT !.actions = Append(@, result.action)]
    ELSE IF Len(result.conditions_failed) > 0
    THEN [acc EXCEPT !.warnings = Append(@, Warning(result))]
    ELSE acc

RECURSIVE RecommendLoop_Backwards(_, _, _)
\* the loop walking evaluationResults from its last entry to its first
RecommendLoop_Backwards(list, i, acc) ==
    IF i > Len(list) THEN acc
    ELSE RecommendLoop_Backwards(list, i + 1,
                                 RecommendStep(acc, list[Len(list) + 1 - i]))

RECURSIVE RecommendLoop(_, _, _)
RecommendLoop(list, i, acc) ==
    IF i > Len(list) THEN acc
    ELSE RecommendLoop(list, i + 1, RecommendStep(acc, list[i]))

\* getRecommendedActions(evaluationResults)
getRecommendedActions(list) == RecommendLoop(list, 1, NoRecommendations)

-----------------------------------------------------------------------------
(* Request bodies the routes are driven with *)

Urgent == <<"U", "R", "G", "E", "N", "T">>
Notify == <<"n", "o", "t", "i", "f", "y">>

AEqualsOne == Cond(Name("a"), Name("equals"), Num(1))
AGreaterOne == Cond(Name("a"), Name("greater_than"), Num(1))

\* POST /api/decision-rules bodies
PostBodies ==
    {Body(Absent(0), Name("High risk"), Name("d"), Given(AndTree(<<AEqualsOne>>)),
          Given(Urgent), Absent(TRUE), Given(5)),
     Body(Absent(0), Name("Either"), NoName, Given(OrTree(<<AEqualsOne, AGreaterOne>>)),
          Given(Notify), Given(FALSE), Absent(0)),
     Body(Absent(0), Name("Shapeless"), NoName, Given(EmptyObject),
          Given(Notify), Absent(TRUE), Given(10)),
     Body(Absent(0), Name("No action"), NoName, Given(AtomicTree(AEqualsOne)),
          Given(<<>>), Absent(TRUE), Absent(0)),
     Body(Absent(0), Name("Null conditions"), NoName, Given(NullTree),
          Given(Notify), Absent(TRUE), Absent(0))}

NoKeys == Body(Absent(0), NoName, NoName, Absent(NullTree), Absent(<<>>),
               Absent(TRUE), Absent(0))

\* PUT /api/decision-rules/:id bodies
PutBodies ==
    {NoKeys,
     [NoKeys EXCEPT !.is_active = Given(FALSE)],
     [NoKeys EXCEPT !.is_active = Given(TRUE)],
     [NoKeys EXCEPT !.priority = Given(30)],
     [NoKeys EXCEPT !.action = Given(<<>>)],
     [NoKeys EXCEPT !.conditions = Given(NullTree)],
     [NoKeys EXCEPT !.conditions = Given(AndTree(<<AEqualsOne, NullCondition>>))],
     [NoKeys EXCEPT !.id = Given(9), !.rule_name = Name("Renamed"),
                    !.conditions = Given(AtomicTree(AGreaterOne))]}

\* records POST /api/decision-rules/evaluate is called with
EvalRecords == {[a |-> x] : x \in {Undefined, Num(1), Num(5)}}

NoResponse == [route |-> "none", status |-> 0, rule |-> NoRow,
               recommendations |-> NoRecommendations]

NoResults == [threw |-> FALSE, list |-> <<>>, error |-> "none"]

\* connections of the pool
Conns == 1..MaxConnections

\* a connection outside a transaction; inside one, `sql` and `rec` are the
\* migrations whose SQL and whose migrations row it holds uncommitted
NoTx == [open |-> FALSE, sql |-> {}, rec |-> {}]

\* the runner before `npm run migrate:run`, on an empty database
MigStart(pc) ==
    [pc |-> pc, run |-> 0, index |-> 0, applied |-> {},
     tx |-> [c \in Conns |-> NoTx], schema |-> {}, recorded |-> {},
     pinned |-> 0, spread |-> FALSE, rerun |-> FALSE]

\* no migration runner
MigOff == mig = MigStart("off")

\* no second call is in flight
OtherIdle ==
    other = [pc |-> "idle", data |-> [a |-> Undefined], rules |-> <<>>,
             results |-> NoResults]

-----------------------------------------------------------------------------
(* Spec: the routes over the table, and one evaluateRules call *)

DbInit ==
    /\ decision_rules = SeedRows
    /\ nextId = 3
    /\ clock = 0
    /\ response = NoResponse
    /\ epc = "idle"
    /\ edata = [a |-> Undefined]
    /\ rules = <<>>
    /\ fetched = {}
    /\ results = NoResults

Init ==
    /\ DbInit
    /\ OtherIdle
    /\ MigOff
    /\ BatchIdle
    /\ conditions = EmptyObject
    /\ data = [a |-> Undefined, b |-> Undefined]
    /\ fnpc = "off"
    /\ FnIdle

\* router.post('/'): 400 unless rule_name, conditions and action are truthy
PostRule ==
    \E body \in PostBodies :
        /\ clock < MaxClock
        /\ IF \/ ~Truthy(body.rule_name)
              \/ ~(body.conditions.def /\ ~body.conditions.v.isNull)
              \/ ~(body.action.def /\ body.action.v # <<>>)
           THEN /\ response' = [route |-> "POST", status |-> 400, rule |-> NoRow,
                                recommendations |-> NoRecommendations]
                /\ UNCHANGED <<decision_rules, nextId, clock>>
           ELSE LET rule == [rule_name |-> body.rule_name.s,
                             description |-> body.description,
                             conditions |-> body.conditions.v,
                             action |-> body.action.v,
                             is_active |-> IF body.is_active.def
                                           THEN body.is_active.v ELSE TRUE,
                             priority |-> IF body.priority.def
                                          THEN body.priority.v ELSE 100]
                    row == createRule(rule, nextId, clock + 1)
                IN  /\ decision_rules' = decision_rules \cup {row}
                    /\ nextId' = nextId + 1
                    /\ clock' = clock + 1
                    /\ response' = [route |-> "POST", status |-> 201, rule |-> row,
                                    recommendations |-> NoRecommendations]
        /\ UNCHANGED <<epc, edata, rules, fetched, results, fnVars, callVars, batchVars, migVars>>

\* router.put('/:id'): updateRule(id, req.body), 404 when it returns null
PutRule ==
    \E id \in 1..nextId, body \in PutBodies :
        /\ clock < MaxClock
        /\ LET u == updateRule(decision_rules, id, body, clock + 1)
           IN  /\ decision_rules' = u.table
               /\ clock' = IF u.wrote THEN clock + 1 ELSE clock
               /\ response' = IF u.row = NoRow
                              THEN [route |-> "PUT", status |-> 404, rule |-> NoRow,
                                    recommendations |-> NoRecommendations]
                              ELSE [route |-> "PUT", status |-> 200, rule |-> u.row,
                                    recommendations |-> NoRecommendations]
        /\ UNCHANGED <<nextId, epc, edata, rules, fetched, results, fnVars, callVars, batchVars, migVars>>

\* router.delete('/:id'): deleteRule(id), 404 when nothing was deleted
DeleteRule ==
    \E id \in 1..nextId :
        /\ clock < MaxClock
        /\ LET d == deleteRule(decision_rules, id)
           IN  /\ decision_rules' = d.table
               /\ clock' = IF d.deleted THEN clock + 1 ELSE clock
               /\ response' = [route |-> "DELETE",
                               status |-> IF d.deleted THEN 200 ELSE 404,
                               rule |-> NoRow,
                               recommendations |-> NoRecommendations]
        /\ UNCHANGED <<nextId, epc, edata, rules, fetched, results, fnVars, callVars, batchVars, migVars>>

\* evaluateRules(data) up to `await this.getActiveRules()`: the query runs
EvaluateFetch ==
    /\ epc = "idle"
    /\ \E record \in EvalRecords, rs \in getActiveRules(decision_rules) :
        /\ edata' = record
        /\ rules' = rs
    /\ fetched' = decision_rules
    /\ results' = NoResults
    /\ epc' = "fetched"
    /\ UNCHANGED <<decision_rules, nextId, clock, response, fnVars, callVars, batchVars, migVars>>

\* evaluateRules(data) when pool.query rejects: getActiveRules rejects, and
\* with it the call; nothing catches, nothing retries
EvaluateFetchFails ==
    /\ epc = "idle"
    /\ \E record \in EvalRecords : edata' = record
    /\ rules' = <<>>
    /\ fetched' = decision_rules
    /\ results' = StoreFailed
    /\ epc' = "done"
    /\ UNCHANGED <<decision_rules, nextId, clock, response, fnVars, callVars, batchVars, migVars>>

\* EvaluateFinish switching off, in the table, every rule it has evaluated
EvaluateFinish_DeactivatesEvaluated ==
    /\ epc = "fetched"
    /\ results' = evaluateRules(rules, edata)
    /\ decision_rules' =
         {IF \E i \in 1..Len(rules) : rules[i].id = r.id
          THEN [r EXCEPT !.is_active = FALSE] ELSE r : r \in decision_rules}
    /\ epc' = "done"
    /\ UNCHANGED <<nextId, clock, response, edata, rules, fetched,
                   fnVars, callVars, batchVars, migVars>>

\* EvaluateFinish running the loop over the rows active now, not those fetched
EvaluateFinish_Refetch ==
    /\ epc = "fetched"
    /\ \E rs \in getActiveRules(decision_rules) : results' = evaluateRules(rs, edata)
    /\ epc' = "done"
    /\ UNCHANGED <<decision_rules, nextId, clock, response, edata, rules, fetched,
                   fnVars, callVars, batchVars, migVars>>

\* evaluateRules(data) after the await: the loop and the sort, no suspension
EvaluateFinish ==
    /\ epc = "fetched"
    /\ results' = evaluateRules(rules, edata)
    /\ epc' = "done"
    /\ UNCHANGED <<decision_rules, nextId, clock, response, edata, rules, fetched,
                   fnVars, callVars, batchVars, migVars>>

\* router.post('/evaluate') answers: 200 with the recommendations drawn from
\* the results, 500 on a rejection
EvaluateRespond ==
    /\ epc = "done"
    /\ response' = [route |-> "EVALUATE",
                    status |-> IF results.threw THEN 500 ELSE 200,
                    rule |-> NoRow,
                    recommendations |-> IF results.threw THEN NoRecommendations
                                        ELSE getRecommendedActions(results.list)]
    /\ epc' = "idle"
    /\ edata' = [a |-> Undefined]
    /\ rules' = <<>>
    /\ fetched' = {}
    /\ results' = NoResults
    /\ UNCHANGED <<decision_rules, nextId, clock, fnVars, callVars, batchVars, migVars>>

Next ==
    \/ PostRule
    \/ PutRule
    \/ DeleteRule
    \/ EvaluateFetch
    \/ EvaluateFetchFails
    \/ EvaluateFinish
    \/ EvaluateRespond

Spec == Init /\ [][Next]_vars

-----------------------------------------------------------------------------
(* SpecCalls: a second POST /evaluate request is served while the first is *)
(* in flight.  Its evaluateRules call has its own `data`, `rules` and      *)
(* `results`, all of them locals of the call.                              *)

\* the second call up to `await this.getActiveRules()`
OtherFetch ==
    /\ other.pc = "idle"
    /\ \E d \in EvalRecords, rs \in getActiveRules(decision_rules) :
        other' = [pc |-> "fetched", data |-> d, rules |-> rs, results |-> NoResults]
    /\ UNCHANGED <<dbVars, fnVars, batchVars, migVars>>

\* the second call after the await
OtherFinish ==
    /\ other.pc = "fetched"
    /\ other' = [other EXCEPT !.pc = "done",
                              !.results = evaluateRules(other.rules, other.data)]
    /\ UNCHANGED <<dbVars, fnVars, batchVars, migVars>>

\* router.post('/evaluate') answers the second request
OtherRespond ==
    /\ other.pc = "done"
    /\ response' = [route |-> "EVALUATE",
                    status |-> IF other.results.threw THEN 500 ELSE 200,
                    rule |-> NoRow,
                    recommendations |-> IF other.results.threw THEN NoRecommendations
                                        ELSE getRecommendedActions(other.results.list)]
    /\ other' = [pc |-> "idle", data |-> [a |-> Undefined], rules |-> <<>>,
                 results |-> NoResults]
    /\ UNCHANGED <<decision_rules, nextId, clock, epc, edata, rules, fetched, results,
                   fnVars, batchVars, migVars>>

CallsNext ==
    \/ clock < MaxInterleaved /\ PostRule
    \/ clock < MaxInterleaved /\ PutRule
    \/ clock < MaxInterleaved /\ DeleteRule
    \/ EvaluateFetch
    \/ EvaluateFetchFails
    \/ EvaluateFinish
    \/ EvaluateRespond
    \/ OtherFetch
    \/ OtherFinish
    \/ OtherRespond

SpecCalls == Init /\ [][CallsNext]_vars

-----------------------------------------------------------------------------
(* SpecBatch: evaluateRules, with its evaluation_time, and                 *)
(* getRecommendedActions applied to bounded inputs                         *)

Critical == <<"C", "r", "i", "t", "i", "c", "a", "l">>

\* the object pushed onto `results`, evaluation_time included
TimedResult(r, t) ==
    [rule_id |-> r.rule_id, rule_name |-> r.rule_name, matched |-> r.matched,
     action |-> r.action, conditions_met |-> r.conditions_met,
     conditions_failed |-> r.conditions_failed, evaluation_time |-> t]

\* the list with evaluation_time: Date.now() - ruleStartTime set per result
Timed(list, elapsed) == [i \in 1..Len(list) |-> TimedResult(list[i], elapsed[i])]

\* every evaluation_time assignment the clock allows for this list
TimedLists(list) ==
    {Timed(list, elapsed) : elapsed \in [1..Len(list) -> 0..MaxElapsed]}

\* the lists evaluateRules(data) may resolve with once getActiveRules() has
\* resolved with rs; none when the call rejects
evaluateRulesTimed(rs, record) ==
    UNION {IF out.threw THEN {} ELSE TimedLists(out.list) :
             out \in {evaluateRules(rs, record)}}

\* rows inserted by one statement with the default priority, so that the
\* store may return them in any order
BatchRows ==
    {createRule([rule_name |-> "High risk", description |-> NoName,
                 conditions |-> AndTree(<<AEqualsOne>>), action |-> Urgent,
                 is_active |-> TRUE, priority |-> 100], 1, 0),
     createRule([rule_name |-> "Either", description |-> NoName,
                 conditions |-> OrTree(<<>>), action |-> Notify,
                 is_active |-> TRUE, priority |-> 100], 2, 0),
     createRule([rule_name |-> "Large", description |-> NoName,
                 conditions |-> AndTree(<<AGreaterOne, AEqualsOne>>),
                 action |-> Critical, is_active |-> TRUE, priority |-> 100], 3, 0)}

\* what getActiveRules() may resolve with when at most MaxResults of these
\* rows are in the table
BatchRuleLists ==
    UNION {getActiveRules(S) : S \in {T \in SUBSET BatchRows : Cardinality(T) <= MaxResults}}

\* results handed to getRecommendedActions directly
GivenResults ==
    {[rule_id |-> id, rule_name |-> IF id = 1 THEN "High risk" ELSE "Either",
      matched |-> m, action |-> a,
      conditions_met |-> IF m THEN <<"a equals 1">> ELSE <<>>,
      conditions_failed |-> f, evaluation_time |-> 0] :
        id \in {1, 2}, m \in BOOLEAN, a \in {Urgent, Critical, Notify},
        f \in {<<>>, <<"a greater_than 1">>, <<"a greater_than 1", "b not_equals 5">>}}

GivenLists == UNION {[1..n -> GivenResults] : n \in 0..MaxResults}

BatchInit ==
    /\ DbInit
    /\ OtherIdle
    /\ MigOff
    /\ conditions = EmptyObject
    /\ data = [a |-> Undefined, b |-> Undefined]
    /\ fnpc = "off"
    /\ FnIdle
    /\ \/ /\ bpc = "start"
          /\ activeRules \in BatchRuleLists
          /\ batchData \in EvalRecords
          /\ evaluationResults = <<>>
       \/ /\ bpc = "given"
          /\ activeRules = <<>>
          /\ batchData = [a |-> Undefined]
          /\ evaluationResults \in GivenLists
    /\ repeated = <<>>
    /\ recommendations = NoRecommendations

\* BatchEvaluateRules emptying the conditions of the rows it has evaluated
BatchEvaluateRules_ConsumesConditions ==
    /\ bpc = "start"
    /\ evaluationResults' \in evaluateRulesTimed(activeRules, batchData)
    /\ activeRules' = [i \in 1..Len(activeRules) |->
                         [activeRules[i] EXCEPT !.conditions = EmptyObject]]
    /\ bpc' = "evaluated"
    /\ UNCHANGED <<batchData, repeated, recommendations, fnVars, dbVars, callVars, migVars>>

\* evaluateRules(data) resolving, each result with its evaluation_time
BatchEvaluateRules ==
    /\ bpc = "start"
    /\ evaluationResults' \in evaluateRulesTimed(activeRules, batchData)
    /\ bpc' = "evaluated"
    /\ UNCHANGED <<activeRules, batchData, repeated, recommendations,
                   fnVars, dbVars, callVars, migVars>>

\* evaluateRules(data) called again with the same argument, the rule set
\* unchanged
BatchEvaluateAgain ==
    /\ bpc = "evaluated"
    /\ repeated' \in evaluateRulesTimed(activeRules, batchData)
    /\ bpc' = "repeated"
    /\ UNCHANGED <<activeRules, batchData, evaluationResults, recommendations,
                   fnVars, dbVars, callVars, migVars>>

\* getRecommendedActions(evaluationResults)
GetRecommendedActions ==
    /\ bpc \in {"given", "evaluated"}
    /\ recommendations' = getRecommendedActions(evaluationResults)
    /\ bpc' = "recommended"
    /\ UNCHANGED <<activeRules, batchData, evaluationResults, repeated,
                   fnVars, dbVars, callVars, migVars>>

BatchNext ==
    \/ BatchEvaluateRules
    \/ BatchEvaluateAgain
    \/ GetRecommendedActions

SpecBatch == BatchInit /\ [][BatchNext]_vars

-----------------------------------------------------------------------------
(* SpecFn: the pure evaluators applied to bounded inputs *)

FnInit ==
    /\ DbInit
    /\ OtherIdle
    /\ MigOff
    /\ BatchIdle
    /\ \E input \in FnInputs :
        /\ conditions = input[1]
        /\ data = input[2]
    /\ fnpc = "start"
    /\ FnIdle

\* evaluateCondition on one of the tree's conditions
EvaluateCondition ==
    /\ fnpc = "start"
    /\ \E c \in ConditionsOf(conditions) :
        /\ condition' = c
        /\ conditionResult' = evaluateCondition(c, data)
    /\ fnpc' = "condition"
    /\ UNCHANGED <<conditions, data, evaluation, previous, change, dbVars, callVars, batchVars, migVars>>

\* evaluateRuleConditions on the tree
EvaluateRuleConditions ==
    /\ fnpc = "start"
    /\ evaluation' = evaluateRuleConditions(conditions, data)
    /\ fnpc' = "tree"
    /\ UNCHANGED <<conditions, data, condition, conditionResult, previous, change,
                   dbVars, callVars, batchVars, migVars>>

\* one child of a group is replaced by another condition (all other
\* children unchanged) and the tree is evaluated again
ReplaceChild ==
    /\ fnpc = "tree"
    /\ \E i \in 1..Len(GroupItems(conditions)), c \in GroupChildren :
        LET old == GroupItems(conditions)[i]
            new == WithGroupItems(conditions, [GroupItems(conditions) EXCEPT ![i] = c])
        IN  /\ c # old
            /\ conditions' = new
            /\ change' = [index |-> i,
                          before |-> evaluateCondition(old, data),
                          after |-> evaluateCondition(c, data)]
            /\ previous' = evaluation
            /\ evaluation' = evaluateRuleConditions(new, data)
    /\ fnpc' = "changed"
    /\ UNCHANGED <<data, condition, conditionResult, dbVars, callVars, batchVars, migVars>>

FnNext ==
    \/ EvaluateCondition
    \/ EvaluateRuleConditions
    \/ ReplaceChild

SpecFn == FnInit /\ [][FnNext]_vars

-----------------------------------------------------------------------------
(* SpecSamples: the rules of createSampleRules on claim records *)

Protected == Str(<<"p", "r", "o", "t", "e", "c", "t", "e", "d">>)
Community == Str(<<"c", "o", "m", "m", "u", "n", "i", "t", "y">>)

SampleRule(rule_name, description, conds, action, is_active, priority) ==
    [rule_name |-> rule_name, description |-> description, conditions |-> conds,
     action |-> action, is_active |-> is_active, priority |-> priority]

\* const sampleRules = [...]
sampleRules ==
    <<SampleRule("High Risk Area Alert",
        Name("Alert when claim is in high-risk forest area"),
        AndTree(<<Cond(Name("forest_type"), Name("equals"), Protected),
                  Cond(Name("area_hectares"), Name("greater_than"), Num(5))>>),
        <<"U", "R", "G", "E", "N", "T", ":", " ", "R", "e", "v", "i", "e",
          "w", " ", "c", "l", "a", "i", "m", " ", "i", "n", " ", "p", "r",
          "o", "t", "e", "c", "t", "e", "d", " ", "f", "o", "r", "e", "s",
          "t", " ", "a", "r", "e", "a", " ", "-", " ", "r", "e", "q", "u",
          "i", "r", "e", "s", " ", "s", "p", "e", "c", "i", "a", "l", " ",
          "a", "p", "p", "r", "o", "v", "a", "l">>,
        TRUE, 10),
      SampleRule("Community Claim Validation",
        Name("Validate community claims have proper documentation"),
        AndTree(<<Cond(Name("claim_type"), Name("equals"), Community),
                  Cond(Name("witnesses_count"), Name("less_than"), Num(3))>>),
        <<"R", "e", "q", "u", "e", "s", "t", " ", "a", "d", "d", "i", "t",
          "i", "o", "n", "a", "l", " ", "w", "i", "t", "n", "e", "s", "s",
          "e", "s", " ", "f", "o", "r", " ", "c", "o", "m", "m", "u", "n",
          "i", "t", "y", " ", "c", "l", "a", "i", "m", " ", "v", "a", "l",
          "i", "d", "a", "t", "i", "o", "n">>,
        TRUE, 20),
      SampleRule("Area Size Check",
        Name("Check if claimed area is within reasonable limits"),
        AtomicTree(Cond(Name("area_hectares"), Name("greater_than"), Num(10))),
        <<"V", "e", "r", "i", "f", "y", " ", "l", "a", "n", "d", " ", "s",
          "u", "r", "v", "e", "y", " ", "a", "n", "d", " ", "b", "o", "u",
          "n", "d", "a", "r", "i", "e", "s", " ", "-", " ", "a", "r", "e",
          "a", " ", "e", "x", "c", "e", "e", "d", "s", " ", "1", "0", " ",
          "h", "e", "c", "t", "a", "r", "e", "s">>,
        TRUE, 30),
      SampleRule("Documentation Completeness",
        Name("Check if all required documents are present"),
        AndTree(<<Cond(Name("has_land_survey"), Name("equals"), Bool(FALSE)),
                  Cond(Name("has_village_certificate"), Name("equals"), Bool(FALSE))>>),
        <<"R", "e", "q", "u", "e", "s", "t", " ", "m", "i", "s", "s", "i",
          "n", "g", " ", "d", "o", "c", "u", "m", "e", "n", "t", "a", "t",
          "i", "o", "n", ":", " ", "l", "a", "n", "d", " ", "s", "u", "r",
          "v", "e", "y", " ", "a", "n", "d", " ", "v", "i", "l", "l", "a",
          "g", "e", " ", "c", "e", "r", "t", "i", "f", "i", "c", "a", "t",
          "e", " ", "r", "e", "q", "u", "i", "r", "e", "d">>,
        TRUE, 40)>>

\* the conditions column of the row createRule stores for a sample rule
SampleConditions(i) == createRule(sampleRules[i], i, 0).conditions

\* claim records the sample rules are evaluated on (Undefined: key absent)
SampleRecords ==
    [forest_type : {Protected, Undefined},
     area_hectares : {Num(5), Num(12)},
     claim_type : {Community, Undefined},
     witnesses_count : {Num(1), Num(3)},
     has_land_survey : {Bool(TRUE), Bool(FALSE), Undefined},
     has_village_certificate : {Bool(TRUE), Bool(FALSE), Undefined}]

SamplesInit ==
    /\ DbInit
    /\ OtherIdle
    /\ MigOff
    /\ BatchIdle
    /\ \E i \in 1..Len(sampleRules) : conditions = SampleConditions(i)
    /\ data \in SampleRecords
    /\ fnpc = "start"
    /\ FnIdle

SpecSamples == SamplesInit /\ [][FnNext]_vars

-----------------------------------------------------------------------------
(* SpecMigrate: MigrationRunner over the pool *)

\* getMigrationFiles(): ids of the .sql files, sorted by file name
migrationFiles == <<"001", "002">>

\* the migration runMigration was called with
Current == migrationFiles[mig.index]

\* a statement executed on connection c: inside the connection's
\* transaction its effect waits for COMMIT, outside it is committed at once
Executed(c, kind) ==
    IF mig.tx[c].open
    THEN [mig EXCEPT !.tx[c].sql = IF kind = "sql" THEN @ \cup {Current} ELSE @,
                     !.tx[c].rec = IF kind = "rec" THEN @ \cup {Current} ELSE @]
    ELSE [mig EXCEPT !.schema = IF kind = "sql" THEN @ \cup {Current} ELSE @,
                     !.recorded = IF kind = "rec" THEN @ \cup {Current} ELSE @]

\* the runner's view after a pool.query served by connection c
Served(m, c) ==
    [m EXCEPT !.spread = @ \/ (m.pinned # 0 /\ m.pinned # c)]

MigrateInit ==
    /\ DbInit
    /\ OtherIdle
    /\ BatchIdle
    /\ conditions = EmptyObject
    /\ data = [a |-> Undefined, b |-> Undefined]
    /\ fnpc = "off"
    /\ FnIdle
    /\ mig = MigStart("idle")

\* runMigrations() up to the loop: createMigrationsTable, getMigrationFiles,
\* getAppliedMigrations (no transaction is open when the process starts)
RunMigrations ==
    /\ mig.pc = "idle"
    /\ mig.run < MaxRuns
    /\ mig' = [mig EXCEPT !.pc = "loop", !.run = @ + 1, !.index = 1,
                          !.applied = mig.recorded, !.pinned = 0]
    /\ UNCHANGED <<fnVars, dbVars, callVars, batchVars>>

\* the loop body when appliedMigrations.includes(migration.id)
SkipApplied ==
    /\ mig.pc = "loop"
    /\ mig.index <= Len(migrationFiles)
    /\ Current \in mig.applied
    /\ mig' = [mig EXCEPT !.index = @ + 1]
    /\ UNCHANGED <<fnVars, dbVars, callVars, batchVars>>

\* the loop body otherwise: runMigration(migration) is entered
StartMigration ==
    /\ mig.pc = "loop"
    /\ mig.index <= Len(migrationFiles)
    /\ Current \notin mig.applied
    /\ mig' = [mig EXCEPT !.pc = "begin", !.pinned = 0]
    /\ UNCHANGED <<fnVars, dbVars, callVars, batchVars>>

\* await pool.query('BEGIN'): the pool serves it with one of its connections
Begin ==
    /\ mig.pc = "begin"
    /\ \E c \in Conns :
         mig' = [mig EXCEPT !.pc = "sql", !.tx[c].open = TRUE, !.pinned = c]
    /\ UNCHANGED <<fnVars, dbVars, callVars, batchVars>>

\* await pool.query(migration.sql)
RunSql ==
    /\ mig.pc = "sql"
    /\ \E c \in Conns :
         mig' = [Served(Executed(c, "sql"), c) EXCEPT
                   !.pc = "insert",
                   !.rerun = @ \/ Current \in mig.recorded]
    /\ UNCHANGED <<fnVars, dbVars, callVars, batchVars>>

\* await pool.query('INSERT INTO migrations ...'): rejected by the primary
\* key when the connection sees a row with this id
RecordMigration ==
    /\ mig.pc = "insert"
    /\ \E c \in Conns :
         IF Current \in mig.recorded \cup mig.tx[c].rec
         THEN mig' = [Served(mig, c) EXCEPT !.pc = "catch", !.tx[c] = NoTx]
         ELSE mig' = [Served(Executed(c, "rec"), c) EXCEPT !.pc = "commit"]
    /\ UNCHANGED <<fnVars, dbVars, callVars, batchVars>>

\* await pool.query('COMMIT'): commits the transaction of the connection
\* that serves it, if it has one; runMigration returns
Commit ==
    /\ mig.pc = "commit"
    /\ \E c \in Conns :
         mig' = [Served(mig, c) EXCEPT
                   !.pc = "loop", !.index = @ + 1,
                   !.schema = @ \cup mig.tx[c].sql,
                   !.recorded = @ \cup mig.tx[c].rec,
                   !.tx[c] = NoTx]
    /\ UNCHANGED <<fnVars, dbVars, callVars, batchVars>>

\* one of the four pool.query calls rejects (SQL error, connection lost):
\* the transaction of the connection that served it, if any, is lost
QueryFails ==
    /\ mig.pc \in {"begin", "sql", "insert", "commit"}
    /\ \E c \in Conns :
         mig' = [Served(mig, c) EXCEPT !.pc = "catch", !.tx[c] = NoTx]
    /\ UNCHANGED <<fnVars, dbVars, callVars, batchVars>>

\* catch: await pool.query('ROLLBACK'); throw error
Rollback ==
    /\ mig.pc = "catch"
    /\ \E c \in Conns :
         mig' = [Served(mig, c) EXCEPT !.pc = "failed", !.tx[c] = NoTx]
    /\ UNCHANGED <<fnVars, dbVars, callVars, batchVars>>

\* main(): the loop is through, or runMigrations threw and process.exit(1)
\* is called; either way the connections close and what they hold
\* uncommitted is rolled back
Exit ==
    /\ \/ mig.pc = "failed"
       \/ mig.pc = "loop" /\ mig.index > Len(migrationFiles)
    /\ mig' = [mig EXCEPT !.pc = "idle", !.index = 0,
                          !.tx = [c \in Conns |-> NoTx], !.pinned = 0]
    /\ UNCHANGED <<fnVars, dbVars, callVars, batchVars>>

MigrateNext ==
    \/ RunMigrations
    \/ SkipApplied
    \/ StartMigration
    \/ Begin
    \/ RunSql
    \/ RecordMigration
    \/ Commit
    \/ QueryFails
    \/ Rollback
    \/ Exit

SpecMigrate == MigrateInit /\ [][MigrateNext]_vars

-----------------------------------------------------------------------------
(* Properties *)

\* the tree spells a complete condition: field, operator and value keys
HasConditionKeys(t) == t.field.def /\ t.operator.def /\ t.value.t # "undefined"

\* the tree carries one of the array keys
HasGroupKey(t) == t.and.def \/ t.or.def \/ t.all.def \/ t.any.def

NoNullChild(t) == \A i \in 1..Len(GroupItems(t)) : ~GroupItems(t)[i].isNull

EveryChildPasses(t, record) ==
    \A i \in 1..Len(GroupItems(t)) : evaluateCondition(GroupItems(t)[i], record).result

SomeChildPasses(t, record) ==
    \E i \in 1..Len(GroupItems(t)) : evaluateCondition(GroupItems(t)[i], record).result

\* C1: a tree stored as {all: [c1..cn]} is reported matched exactly when
\* every ci evaluates true, and one stored as {any: [c1..cn]} exactly when
\* at least one ci evaluates true (all and any being the group keys).
C1_AllAnyGroups ==
    (/\ fnpc = "tree"
     /\ GroupKey(conditions) \in {"all", "any"}
     /\ ~HasConditionKeys(conditions)
     /\ Len(GroupItems(conditions)) >= 1
     /\ NoNullChild(conditions))
    => /\ ~evaluation.threw
       /\ evaluation.matched =
            IF GroupKey(conditions) = "all" THEN EveryChildPasses(conditions, data)
            ELSE SomeChildPasses(conditions, data)

\* C2: when record[field] is undefined or null, evaluateCondition returns
\* false for each of the eight operators and for any unknown operator.
C2_MissingFieldSafety ==
    (/\ fnpc = "condition"
     /\ ~condition.isNull
     /\ FieldValue(data, condition.field).t \in {"undefined", "null"})
    => conditionResult = Returned(FALSE)

\* C2 witness: not_equals against an absent field was evaluated, to false
C2_Witness ==
    /\ fnpc = "condition"
    /\ ~condition.isNull
    /\ condition.operator = Name("not_equals")
    /\ FieldValue(data, condition.field).t = "undefined"
    /\ conditionResult = Returned(FALSE)

\* C3: evaluateRules returns a result for every active rule it fetched even
\* when one rule's tree cannot be evaluated; that rule is reported unmatched.
C3_FailureIsolation ==
    (epc = "done" /\ results # StoreFailed)
    => /\ ~results.threw
       /\ {results.list[i].rule_id : i \in 1..Len(results.list)}
            = {rules[i].id : i \in 1..Len(rules)}
       /\ \A i \in 1..Len(results.list), j \in 1..Len(rules) :
            (results.list[i].rule_id = rules[j].id
             /\ evaluateRuleConditions(rules[j].conditions, edata).threw)
            => ~results.list[i].matched

\* one of the three condition-tree shapes: a condition, or one group
ValidShape(t) ==
    /\ ~t.isNull
    /\ \/ HasConditionKeys(t) /\ ~HasGroupKey(t)
       \/ ~HasConditionKeys(t) /\ HasGroupKey(t)

\* C4: every persisted rule has a non-empty action and conditions of one of
\* the three valid shapes, whatever the routes were called with.
C4_PersistedRulesValid ==
    \A r \in decision_rules : r.action # <<>> /\ ValidShape(r.conditions)

\* C5: a tree with neither the condition keys nor a group key, or with both,
\* evaluates to unmatched with the single trace entry "Invalid condition
\* format", and does not throw.
C5_MalformedTrees ==
    (/\ fnpc = "tree"
     /\ ~conditions.isNull
     /\ \/ ~HasConditionKeys(conditions) /\ ~HasGroupKey(conditions)
        \/ HasConditionKeys(conditions) /\ HasGroupKey(conditions))
    => evaluation = [threw |-> FALSE, matched |-> FALSE, conditions_met |-> <<>>,
                     conditions_failed |-> <<InvalidConditionFormat>>]


ResultsFor(list, id) == {i \in 1..Len(list) : list[i].rule_id = id}

\* C6: a resolved evaluateRules call holds exactly one result for each rule
\* that was active when the rows were fetched and none for any other rule;
\* an inactive rule is still returned by getRuleById and getAllRules and
\* updateRule still updates it, re-activation included.
C6_ActiveRulesOnly ==
    /\ (epc = "done" /\ ~results.threw)
       => /\ \A r \in fetched :
               Cardinality(ResultsFor(results.list, r.id))
                 = IF r.is_active THEN 1 ELSE 0
          /\ \A i \in 1..Len(results.list) : results.list[i].rule_id \in Ids(fetched)
    /\ \A r \in decision_rules :
         ~r.is_active
         => /\ getRuleById(decision_rules, r.id) = r
            /\ getAllRules(decision_rules) # {}
            /\ \A q \in getAllRules(decision_rules) : \E i \in 1..Len(q) : q[i] = r
            /\ LET u == updateRule(decision_rules, r.id,
                                   [NoKeys EXCEPT !.is_active = Given(TRUE)], clock + 1)
               IN  u.wrote /\ u.row.id = r.id /\ u.row.is_active

\* C6 witness: a call resolved with results while the table it fetched from
\* held a rule that an update had deactivated
C6_Witness ==
    /\ epc = "done"
    /\ ~results.threw
    /\ Len(results.list) >= 1
    /\ \E r \in fetched : ~r.is_active /\ r.updated_at > r.created_at

\* every order in which a query could hand back these rows
AllOrders(rows) ==
    {q \in [1..Cardinality(rows) -> rows] :
        \A i, j \in 1..Cardinality(rows) : i # j => q[i] # q[j]}

\* C7: the list evaluateRules returns is in strictly ascending rule_id
\* order, and is the same list for every order in which the store could
\* have returned the same active rules, whatever their priorities.
C7_AscendingRuleId ==
    (epc = "done" /\ ~results.threw)
    => /\ \A i, j \in 1..Len(results.list) :
            i < j => results.list[i].rule_id < results.list[j].rule_id
       /\ \A q \in AllOrders({rules[i] : i \in 1..Len(rules)}) :
            evaluateRules(q, edata) = results

\* C7 witness: the store returned a higher id before a lower one
C7_Witness ==
    /\ epc = "done"
    /\ ~results.threw
    /\ Len(rules) >= 2
    /\ rules[1].id > rules[2].id
    /\ results.list[1].rule_id < results.list[2].rule_id

Count(list, d) == Cardinality({i \in 1..Len(list) : list[i] = d})

\* the tree is evaluated as a single condition
IsSingleCondition(t) ==
    /\ ~t.isNull
    /\ ~HasGroupKey(t)
    /\ Truthy(t.field) /\ Truthy(t.operator) /\ t.value.t # "undefined"

C9_ConjunctionMonotone ==
    (/\ fnpc = "changed"
     /\ GroupKey(conditions) = "and"
     /\ change.before = Returned(TRUE)
     /\ change.after = Returned(FALSE)
     /\ ~evaluation.threw)
    => evaluation.matched = FALSE

\* C9 witness: a matched AND group became unmatched by such a replacement
C9_Witness ==
    /\ fnpc = "changed"
    /\ GroupKey(conditions) = "and"
    /\ change.before = Returned(TRUE)
    /\ change.after = Returned(FALSE)
    /\ ~previous.threw /\ previous.matched
    /\ ~evaluation.threw /\ ~evaluation.matched

RECURSIVE Descriptions(_, _, _, _)
\* the descriptions of the children cs[i..] whose outcome is `passed`, in
\* the order in which the children are declared
Descriptions(cs, i, record, passed) ==
    IF i > Len(cs) THEN <<>>
    ELSE IF evaluateCondition(cs[i], record).result = passed
    THEN <<Describe(cs[i])>> \o Descriptions(cs, i + 1, record, passed)
    ELSE Descriptions(cs, i + 1, record, passed)

C12_CompleteOrStoreFailure ==
    epc = "done"
    => \/ /\ ~results.threw
          /\ Len(results.list) = Len(rules)
          /\ \A i \in 1..Len(rules) :
                Cardinality(ResultsFor(results.list, rules[i].id)) = 1
       \/ results = StoreFailed

\* C13: an evaluateRules call evaluates the rows it fetched, once, and what
\* it resolves or rejects with is determined by the table as it was at the
\* fetch and by its own data argument: the rules created, updated or deleted
\* and the other calls that ran in between change neither the rules it
\* reports nor any of its per-rule results.
C13_SnapshotEvaluation ==
    /\ (epc \in {"fetched", "done"} /\ results # StoreFailed)
       => rules \in getActiveRules(fetched)
    /\ (epc = "done" /\ results # StoreFailed)
       => \A q \in getActiveRules(fetched) : results = evaluateRules(q, edata)
    /\ other.pc = "done" => other.results = evaluateRules(other.rules, other.data)

\* C13 witness: the call resolved with the rule it had fetched although that
\* rule was deleted in between, while a second call that fetched after the
\* delete came to its own, different, result
C13_Witness ==
    /\ epc = "done"
    /\ ~results.threw
    /\ \E i \in 1..Len(results.list) : results.list[i].rule_id \notin Ids(decision_rules)
    /\ other.pc = "done"
    /\ ~other.results.threw
    /\ Len(other.results.list) < Len(results.list)

\* the positions of the results that matched and whose action is, or is not,
\* a high-priority one
MatchedAt(list, high) ==
    {i \in 1..Len(list) : list[i].matched /\ IsHighPriority(list[i].action) = high}

\* C14: the action of every matched result is in exactly one bucket:
\* high_priority_actions if it contains "urgent" or "critical" in any
\* letter case, actions otherwise; the buckets hold nothing else, so no
\* action of an unmatched result is in either.
C14_ActionBuckets ==
    bpc = "recommended"
    => /\ IsHighPriority(Urgent) /\ IsHighPriority(Critical) /\ ~IsHighPriority(Notify)
       /\ Len(recommendations.high_priority_actions)
            = Cardinality(MatchedAt(evaluationResults, TRUE))
       /\ Len(recommendations.actions)
            = Cardinality(MatchedAt(evaluationResults, FALSE))
       /\ \A i \in MatchedAt(evaluationResults, TRUE) :
            /\ Count(recommendations.high_priority_actions, evaluationResults[i].action)
                 = Cardinality({j \in MatchedAt(evaluationResults, TRUE) :
                                  evaluationResults[j].action = evaluationResults[i].action})
            /\ Count(recommendations.actions, evaluationResults[i].action) = 0
       /\ \A i \in MatchedAt(evaluationResults, FALSE) :
            /\ Count(recommendations.actions, evaluationResults[i].action)
                 = Cardinality({j \in MatchedAt(evaluationResults, FALSE) :
                                  evaluationResults[j].action = evaluationResults[i].action})
            /\ Count(recommendations.high_priority_actions, evaluationResults[i].action) = 0

\* C14 witness: a matched "URGENT", a matched "notify" and an unmatched
\* "Critical" were sorted into the buckets
C14_Witness ==
    /\ bpc = "recommended"
    /\ \E i, j \in 1..Len(evaluationResults) :
         /\ evaluationResults[i].matched /\ evaluationResults[i].action = Urgent
         /\ ~evaluationResults[j].matched /\ evaluationResults[j].action = Critical
    /\ recommendations.high_priority_actions = <<Urgent>>
    /\ recommendations.actions = <<>>

RECURSIVE CommaSeparated(_)
\* the entries of a non-empty list, each but the first preceded by ", "
CommaSeparated(list) ==
    IF Len(list) = 1 THEN list[1]
    ELSE CommaSeparated(SubSeq(list, 1, Len(list) - 1)) \o ", " \o list[Len(list)]

\* Rule "<rule_name>" conditions not met: <conditions_failed joined by ", ">
ExpectedWarning(r) ==
    "Rule \"" \o r.rule_name \o "\" conditions not met: "
        \o CommaSeparated(r.conditions_failed)

\* the positions of the unmatched results that have a failure trace
WarnedAt(list) ==
    {i \in 1..Len(list) : ~list[i].matched /\ list[i].conditions_failed # <<>>}

\* C15: warnings holds exactly one entry, of the form
\* Rule "<rule_name>" conditions not met: <conditions_failed joined by ", ">,
\* for each unmatched result with a non-empty conditions_failed, and no
\* entry for a matched result or an unmatched one with an empty trace.
C15_Warnings ==
    bpc = "recommended"
    => /\ Len(recommendations.warnings) = Cardinality(WarnedAt(evaluationResults))
       /\ \A i \in WarnedAt(evaluationResults) :
            Count(recommendations.warnings, ExpectedWarning(evaluationResults[i]))
              = Cardinality({j \in WarnedAt(evaluationResults) :
                               ExpectedWarning(evaluationResults[j])
                                 = ExpectedWarning(evaluationResults[i])})

\* C15 witness: of an unmatched result without a trace and an unmatched one
\* with two failed conditions only the second produced a warning
C15_Witness ==
    /\ bpc = "recommended"
    /\ Len(evaluationResults) = 2
    /\ ~evaluationResults[1].matched /\ evaluationResults[1].conditions_failed = <<>>
    /\ ~evaluationResults[2].matched /\ evaluationResults[2].rule_name = "High risk"
    /\ recommendations.warnings
         = <<"Rule \"High risk\" conditions not met: a greater_than 1, b not_equals 5">>

\* the warnings getRecommendedActions draws from the result evaluateRules
\* builds for a rule with the tree just evaluated
WarningsForEvaluation ==
    getRecommendedActions(
        <<Result([id |-> 1, rule_name |-> "Rule", action |-> Notify], evaluation)>>).warnings

\* C16: every evaluation that ends unmatched has a non-empty
\* conditions_failed, whatever the shape of the tree, so that the rule
\* contributes a warning.
C16_UnmatchedHasTrace ==
    (/\ fnpc \in {"tree", "changed"}
     /\ ~evaluation.threw
     /\ ~evaluation.matched)
    => /\ evaluation.conditions_failed # <<>>
       /\ Len(WarningsForEvaluation) = 1

\* C16, amended: every evaluation that ends unmatched has a non-empty
\* conditions_failed and contributes a warning, except that of an `or`
\* group without children, which ends unmatched with both traces empty and
\* contributes no warning.
C16_UnmatchedHasTraceUnlessEmptyOr ==
    (/\ fnpc \in {"tree", "changed"}
     /\ ~evaluation.threw
     /\ ~evaluation.matched)
    => IF GroupKey(conditions) = "or" /\ GroupItems(conditions) = <<>>
       THEN /\ evaluation.conditions_failed = <<>>
            /\ evaluation.conditions_met = <<>>
            /\ WarningsForEvaluation = <<>>
       ELSE /\ evaluation.conditions_failed # <<>>
            /\ Len(WarningsForEvaluation) = 1

\* C16 witness: an `or` group without children was evaluated
C16_Witness ==
    /\ fnpc = "tree"
    /\ conditions = OrTree(<<>>)
    /\ ~evaluation.threw
    /\ ~evaluation.matched
    /\ evaluation.conditions_failed = <<>>

IsPlainMatch(r) == r.matched /\ ~IsHighPriority(r.action)
IsHighMatch(r) == r.matched /\ IsHighPriority(r.action)
IsWarned(r) == ~r.matched /\ r.conditions_failed # <<>>

ActionsOf(list) == [i \in 1..Len(list) |-> list[i].action]
WarningsOf(list) == [i \in 1..Len(list) |-> ExpectedWarning(list[i])]

\* C17: each bucket lists its entries in the order in which their results
\* stand in the input list; for a list that evaluateRules returned this is
\* the order of ascending rule_id.
C17_BucketOrder ==
    bpc = "recommended"
    => /\ recommendations.actions
            = ActionsOf(SelectSeq(evaluationResults, IsPlainMatch))
       /\ recommendations.high_priority_actions
            = ActionsOf(SelectSeq(evaluationResults, IsHighMatch))
       /\ recommendations.warnings
            = WarningsOf(SelectSeq(evaluationResults, IsWarned))
       /\ activeRules # <<>>
          => \A i, j \in 1..Len(evaluationResults) :
               i < j => evaluationResults[i].rule_id < evaluationResults[j].rule_id

\* C17 witness: two unmatched results given in descending rule_id order
\* produced their two different warnings in that same order
C17_Witness ==
    /\ bpc = "recommended"
    /\ Len(evaluationResults) = 2
    /\ evaluationResults[1].rule_id > evaluationResults[2].rule_id
    /\ Len(recommendations.warnings) = 2
    /\ recommendations.warnings[1] # recommendations.warnings[2]
    /\ recommendations.warnings[1] = ExpectedWarning(evaluationResults[1])

\* the list without the evaluation_time of its results
Untimed(list) ==
    [i \in 1..Len(list) |->
        [rule_id |-> list[i].rule_id, rule_name |-> list[i].rule_name,
         matched |-> list[i].matched, action |-> list[i].action,
         conditions_met |-> list[i].conditions_met,
         conditions_failed |-> list[i].conditions_failed]]

\* evaluateRules, and with it evaluateRuleConditions and evaluateCondition,
\* leaves the record and every fetched rule, its conditions included, as
\* they were
ArgumentsUnmodified ==
    [][(BatchEvaluateRules \/ BatchEvaluateAgain)
         => UNCHANGED <<activeRules, batchData>>]_vars

\* C18: evaluation leaves the record and every rule's conditions
\* unmodified, and a second call with identical arguments against the same
\* rules resolves with output identical to the first's.
C18_Pure ==
    /\ [](bpc = "repeated" => repeated = evaluationResults)
    /\ ArgumentsUnmodified

\* C18, amended: evaluation leaves the record and every rule's conditions
\* unmodified, and a second call with identical arguments against the same
\* rules resolves with output identical to the first's in everything but
\* the evaluation_time of the results, in whatever order the store returns
\* the rules.
C18_PureApartFromTime ==
    /\ [](bpc = "repeated"
           => /\ Untimed(repeated) = Untimed(evaluationResults)
              /\ \A q \in AllOrders({activeRules[i] : i \in 1..Len(activeRules)}) :
                   evaluateRules(q, batchData).list = Untimed(evaluationResults))
    /\ ArgumentsUnmodified

\* C18 witness: two calls on the same two rules and record resolved with
\* lists that differ in an evaluation_time and in nothing else
C18_Witness ==
    /\ bpc = "repeated"
    /\ Len(activeRules) = 2
    /\ repeated # evaluationResults
    /\ Untimed(repeated) = Untimed(evaluationResults)
    /\ \E i \in 1..Len(repeated) : repeated[i].matched

\* C19: no step of an evaluateRules call or of the getRecommendedActions
\* call that follows it writes to the store: the rows of decision_rules,
\* every field of each (is_active, priority, updated_at included), the id
\* sequence and the store's clock are as they were.
C19_EngineNeverWrites ==
    [][(EvaluateFetch \/ EvaluateFetchFails \/ EvaluateFinish \/ EvaluateRespond)
         => UNCHANGED <<decision_rules, nextId, clock>>]_vars

\* C19 witness: an evaluation was answered with its recommendations and the
\* table is still the seeded one, written by no statement
C19_Witness ==
    /\ response.route = "EVALUATE"
    /\ response.status = 200
    /\ Len(response.recommendations.warnings) = 2
    /\ decision_rules = SeedRows
    /\ clock = 0

\* the row with this id is, in both tables, the same in every column that
\* the body does not supply; id and created_at are never supplied
UnsuppliedUnchanged(old, new, rule) ==
    /\ new.id = old.id
    /\ new.created_at = old.created_at
    /\ ~rule.rule_name.def => new.rule_name = old.rule_name
    /\ ~rule.description.def => new.description = old.description
    /\ ~rule.conditions.def => new.conditions = old.conditions
    /\ ~rule.action.def => new.action = old.action
    /\ ~rule.is_active.def => new.is_active = old.is_active
    /\ ~rule.priority.def => new.priority = old.priority

\* every column the body supplies holds the supplied value
SuppliedWritten(new, rule) ==
    /\ rule.rule_name.def => new.rule_name = rule.rule_name.s
    /\ rule.description.def => new.description = rule.description
    /\ rule.conditions.def => new.conditions = JsonConditions(rule.conditions.v)
    /\ rule.action.def => new.action = rule.action.v
    /\ rule.is_active.def => new.is_active = rule.is_active.v
    /\ rule.priority.def => new.priority = rule.priority.v

\* what the last PUT answered is what the table holds
PutAnswerStored ==
    (response.route = "PUT" /\ response.status = 200)
    => /\ response.rule \in decision_rules
       /\ response.rule.updated_at <= clock

\* C20: on any table the routes can produce, updateRule with an absent id
\* returns null and changes nothing; with the id of a rule it writes
\* exactly the supplied columns, leaves the others and all other rules as
\* they were, stamps updated_at and returns the row as stored.
C20_UpdateRule ==
    /\ PutAnswerStored
    /\ \A id \in 1..nextId, rule \in PutBodies :
         LET u == updateRule(decision_rules, id, rule, clock + 1)
         IN  IF id \notin Ids(decision_rules)
             THEN u.row = NoRow /\ u.table = decision_rules
             ELSE /\ u.row \in u.table
                  /\ u.table \ {u.row} = decision_rules \ {RowOf(decision_rules, id)}
                  /\ UnsuppliedUnchanged(RowOf(decision_rules, id), u.row, rule)
                  /\ SuppliedWritten(u.row, rule)
                  /\ u.row.updated_at = clock + 1

\* C20, amended: as C20, except that updated_at is stamped only when the
\* body supplies at least one of the six columns; with none supplied no
\* statement is issued and the rule is returned as it is, updated_at
\* included.
C20_UpdateRuleStampsOnWrite ==
    /\ PutAnswerStored
    /\ \A id \in 1..nextId, rule \in PutBodies :
         LET u == updateRule(decision_rules, id, rule, clock + 1)
         IN  IF id \notin Ids(decision_rules)
             THEN u.row = NoRow /\ u.table = decision_rules
             ELSE /\ u.row \in u.table
                  /\ u.table \ {u.row} = decision_rules \ {RowOf(decision_rules, id)}
                  /\ UnsuppliedUnchanged(RowOf(decision_rules, id), u.row, rule)
                  /\ SuppliedWritten(u.row, rule)
                  /\ IF SetFields(rule) = {}
                     THEN u.row = RowOf(decision_rules, id) /\ ~u.wrote
                     ELSE u.row.updated_at = clock + 1 /\ u.wrote

\* C20 witness: a PUT that supplied only priority was answered with the
\* rule as stored: new priority, new updated_at, the rest as seeded
C20_Witness ==
    /\ response.route = "PUT"
    /\ response.status = 200
    /\ response.rule.priority = 30
    /\ response.rule.updated_at > response.rule.created_at
    /\ response.rule.is_active
    /\ response.rule \in decision_rules
    /\ \E r \in SeedRows :
         /\ r.id = response.rule.id
         /\ r.conditions = response.rule.conditions
         /\ r.action = response.rule.action

\* the DELETE route answers 200 exactly when a row went away, and removes
\* at most one row, changing none
DeleteRemovesOne ==
    [][DeleteRule =>
         /\ (response'.status = 200) = (decision_rules' # decision_rules)
         /\ decision_rules' \subseteq decision_rules
         /\ Cardinality(decision_rules \ decision_rules') <= 1]_vars

\* what deleteRule(id) does on the table as it is now
DeleteRuleOnTable ==
    \A id \in 1..nextId :
        LET d == deleteRule(decision_rules, id)
        IN  /\ d.deleted = (id \in Ids(decision_rules))
            /\ ~d.deleted => d.table = decision_rules
            /\ d.deleted =>
                 /\ d.table = decision_rules \ {RowOf(decision_rules, id)}
                 /\ getRuleById(d.table, id) = NoRow
                 /\ \A q \in getAllRules(d.table) :
                      \A i \in 1..Len(q) : q[i].id # id
                 /\ \A rs \in getActiveRules(d.table), record \in EvalRecords :
                      ResultsFor(evaluateRules(rs, record).list, id) = {}

\* C21: deleteRule(id) returns true exactly when a rule with that id
\* existed just before; then getRuleById(id) is null, the rule is in no
\* getAllRules listing and in no result of an evaluation that fetches
\* afterwards, and every other rule is as it was; when it returns false
\* the table is unchanged.
C21_DeleteRule ==
    /\ []DeleteRuleOnTable
    /\ DeleteRemovesOne

\* C21 witness: the only write so far was a DELETE answered 200, and an
\* evaluation that fetched after it returned results for the one rule left
C21_Witness ==
    /\ clock = 1
    /\ Cardinality(decision_rules) = 1
    /\ decision_rules \subseteq SeedRows
    /\ epc = "done"
    /\ fetched = decision_rules
    /\ ~results.threw
    /\ Len(results.list) = 1
    /\ \A r \in decision_rules : results.list[1].rule_id = r.id

\* persisted rules have pairwise distinct ids, all handed out by the store
DistinctIds ==
    /\ \A r1, r2 \in decision_rules : r1.id = r2.id => r1 = r2
    /\ \A r \in decision_rules : r.id \in 1..(nextId - 1)

\* a POST that creates a rule gives it the store's next id, a fresh one
PostAssignsId ==
    [][(PostRule /\ response'.status = 201) =>
         /\ response'.rule.id = nextId
         /\ nextId \notin Ids(decision_rules)
         /\ Ids(decision_rules') = Ids(decision_rules) \cup {nextId}]_vars

\* a PUT, whatever its body, leaves every rule under the id it had, and
\* answers with the id it was addressed to
PutKeepsIds ==
    [][PutRule =>
         /\ Ids(decision_rules') = Ids(decision_rules)
         /\ \A r \in decision_rules :
              RowOf(decision_rules', r.id).created_at = r.created_at
         /\ response'.status = 200 => response'.rule.id \in Ids(decision_rules)]_vars

\* C22: ids are assigned by the store when a rule is created, persisted
\* rules have pairwise distinct ids in every reachable state, and no
\* updateRule call, an id key in the PUT body included, changes the id of
\* a rule.
C22_IdsUniqueImmutable ==
    /\ []DistinctIds
    /\ PostAssignsId
    /\ PutKeepsIds

\* C22 witness: a PUT whose body carried id = 9 renamed a rule, which is
\* stored under the id it had, next to a rule created by a POST
C22_Witness ==
    /\ response.route = "PUT"
    /\ response.status = 200
    /\ response.rule.rule_name = "Renamed"
    /\ response.rule.id = 3
    /\ response.rule \in decision_rules
    /\ Cardinality(decision_rules) = 3

\* the condition's operator is none of the eight the switch has a case for
UnknownOperator(c) == ~(c.operator.def /\ c.operator.s \in KnownOperators)

ByPriorityThenId(q) ==
    \A i, j \in 1..Len(q) :
        i < j => \/ q[i].priority < q[j].priority
                 \/ q[i].priority = q[j].priority /\ q[i].id < q[j].id

\* C24: every listing getAllRules or getActiveRules can return puts a rule
\* with a lower priority value before one with a higher value, and rules of
\* equal priority in ascending order of id.
C24_PriorityThenIdOrder ==
    \A q \in getAllRules(decision_rules) \cup getActiveRules(decision_rules) :
        ByPriorityThenId(q)

\* C25: the sample rule 'Documentation Completeness' of createSampleRules
\* matches every record in which has_land_survey is false or
\* has_village_certificate is false; either one alone suffices.
C25_DocumentationCompleteness ==
    (/\ fnpc = "tree"
     /\ conditions = SampleConditions(4)
     /\ \/ data.has_land_survey = Bool(FALSE)
        \/ data.has_village_certificate = Bool(FALSE))
    => evaluation.matched

\* C26: greater_than_or_equal and less_than_or_equal are evaluated: on a
\* numeric field and a numeric value the first is true exactly when
\* field >= value, the second exactly when field <= value.
C26_OrEqualOperators ==
    (/\ fnpc = "condition"
     /\ ~condition.isNull
     /\ condition.operator.def
     /\ condition.operator.s \in {"greater_than_or_equal", "less_than_or_equal"}
     /\ FieldValue(data, condition.field).t = "number"
     /\ condition.value.t = "number")
    => /\ ~conditionResult.threw
       /\ conditionResult.result
            = IF condition.operator.s = "greater_than_or_equal"
              THEN FieldValue(data, condition.field).n >= condition.value.n
              ELSE FieldValue(data, condition.field).n <= condition.value.n

\* C27: in every evaluation that returned, an OR rule (the tree has an `or`
\* list and no `and` list) is matched exactly when conditions_met is not
\* empty, and an AND rule or a single-condition rule (every other tree) is
\* matched exactly when conditions_failed is empty.
C27_MatchedAgreesWithTrace ==
    (fnpc \in {"tree", "changed"} /\ ~evaluation.threw)
    => IF ~conditions.and.def /\ conditions.or.def
       THEN evaluation.matched = (evaluation.conditions_met # <<>>)
       ELSE evaluation.matched = (evaluation.conditions_failed = <<>>)

\* C27 witness: an OR rule of two children was evaluated, one child met and
\* one failed, and the rule matched although its failed list is not empty
C27_Witness ==
    /\ fnpc = "tree"
    /\ GroupKey(conditions) = "or"
    /\ Len(GroupItems(conditions)) = 2
    /\ Len(evaluation.conditions_met) = 1
    /\ Len(evaluation.conditions_failed) = 1
    /\ evaluation.matched

\* priorities the rules of the other store may carry
PriorityValues == {10, 100, 200}

\* the same rows with other priority values
Reprioritised(rows, f) == {[r EXCEPT !.priority = f[r.id]] : r \in rows}

\* the rows the batch's evaluateRules call fetched
BatchFetched == {activeRules[i] : i \in 1..Len(activeRules)}

\* C29: for a store that differs from the one evaluated only in the
\* priority values of its rules, evaluateRules on the same record returns
\* the same sequence of rule_id, rule_name, matched, action, conditions_met
\* and conditions_failed, and getRecommendedActions the same bundle, in
\* whatever order either store returns its rules.
C29_PriorityNonInterference ==
    (bpc \in {"evaluated", "recommended"} /\ activeRules # <<>>)
    => \A f \in [Ids(BatchFetched) -> PriorityValues] :
         \A q \in getActiveRules(Reprioritised(BatchFetched, f)) :
            LET out == evaluateRules(q, batchData)
            IN  /\ ~out.threw
                /\ out.list = Untimed(evaluationResults)
                /\ bpc = "recommended"
                     => getRecommendedActions(out.list) = recommendations

\* C29 witness: two rules of equal priority were fetched in descending
\* order of id, one matched with an urgent action, and the bundle was drawn
C29_Witness ==
    /\ bpc = "recommended"
    /\ Len(activeRules) = 2
    /\ activeRules[1].id > activeRules[2].id
    /\ recommendations.high_priority_actions # <<>>
    /\ recommendations.warnings # <<>>

\* the body that supplies what either of two bodies supplies; the bodies
\* supply no field in common
Merged(b1, b2) ==
    [id |-> Absent(0),
     rule_name |-> IF b1.rule_name.def THEN b1.rule_name ELSE b2.rule_name,
     description |-> IF b1.description.def THEN b1.description ELSE b2.description,
     conditions |-> IF b1.conditions.def THEN b1.conditions ELSE b2.conditions,
     action |-> IF b1.action.def THEN b1.action ELSE b2.action,
     is_active |-> IF b1.is_active.def THEN b1.is_active ELSE b2.is_active,
     priority |-> IF b1.priority.def THEN b1.priority ELSE b2.priority]

\* the table after updateRule(id, first) and then updateRule(id, second),
\* each a single UPDATE statement
UpdatedTwice(id, first, second) ==
    updateRule(updateRule(decision_rules, id, first, clock + 1).table,
               id, second, clock + 2).table

\* C30: two updateRule calls on the same existing id that supply disjoint
\* sets of fields both take effect in whichever order their UPDATE
\* statements run: the rule ends with the values of both partials, its
\* other fields and every other rule as they were, and the same in both
\* orders.
C30_NoLostUpdate ==
    \A id \in Ids(decision_rules), b1, b2 \in PutBodies :
        (SetFields(b1) # {} /\ SetFields(b2) # {}
           /\ SetFields(b1) \cap SetFields(b2) = {})
        => LET old == RowOf(decision_rules, id)
               t12 == UpdatedTwice(id, b1, b2)
               t21 == UpdatedTwice(id, b2, b1)
               new == RowOf(t12, id)
           IN  /\ t12 = t21
               /\ SuppliedWritten(new, b1)
               /\ SuppliedWritten(new, b2)
               /\ UnsuppliedUnchanged(old, new, Merged(b1, b2))
               /\ t12 \ {new} = decision_rules \ {old}

\* C30 witness: two PUTs on rule 1, one supplying only is_active and one
\* only priority, have both run; the rule carries both values and the
\* rest of the table is as seeded
C30_Witness ==
    /\ clock = 2
    /\ Cardinality(decision_rules) = 2
    /\ \E r \in decision_rules, seed \in SeedRows :
         /\ r.id = 1 /\ seed.id = 1
         /\ r.is_active = FALSE
         /\ r.priority = 30
         /\ r.updated_at = 2
         /\ r.conditions = seed.conditions
         /\ r.action = seed.action
         /\ r.rule_name = seed.rule_name
    /\ \E r \in decision_rules : r.id = 2 /\ r \in SeedRows

\* C28: once a run of the migration runner has ended, each migration's SQL
\* has taken effect exactly if its id is recorded in the migrations table,
\* and no migration's SQL was executed while its id was recorded.
C28_MigrationAtomic ==
    /\ mig.pc = "idle" => mig.schema = mig.recorded
    /\ ~mig.rerun

\* the same for runs in which the pool served every statement of a
\* migration with the connection that served its BEGIN
AtomicWhenPinned ==
    (mig.pc = "idle" /\ ~mig.spread) => mig.schema = mig.recorded

\* a recorded migration is skipped by every later run
RecordedNeverRerun == ~mig.rerun

====
